---- MODULE Spec2Model ----
(***************************************************************************)
(* LemonNES: the audio unit (apu.js, the version with DMC DMA and sticky   *)
(* IRQs), its shared envelope / length units, the frame sequencer, the     *)
(* status register and the audio ring buffer.                              *)
(*                                                                         *)
(* The body of the loop of APU.step(cycles) has three parts: the clock()   *)
(* calls of the four tone channels (timer counters and waveform phase),    *)
(* DMC.clock() (the DMA cursor and the DMC IRQ flag), and the frame        *)
(* sequencer (seqTime, _phase, frameIRQ and the quarter / half ticks).     *)
(* The sequencer reads nothing the clock() calls write except dmc.irq, at  *)
(* a wrap, and DMC.clock() reads nothing the sequencer writes.  SpecSeq    *)
(* follows the sequencer part with the DMC never started, SpecDmc follows  *)
(* DMC.clock(), and ApuCycle puts the two together in the order of the     *)
(* loop body.  In those specifications the tone channels' timer counters   *)
(* and waveform phases are carried as written by the register writes and   *)
(* not advanced; SpecRun adds pulse1.clock() to the sequencer part,        *)
(* SpecPulse and SpecNoise follow one pulse and the noise channel on their *)
(* own, and SpecMix follows the mixer, in exact fractions.                 *)
(*                                                                         *)
(* The picture unit (ppu.js): its registers under readRegister and         *)
(* writeRegister (SpecPpuReg) and its cycle / scanline counters under      *)
(* step() (SpecPpuTime).                                                   *)
(***************************************************************************)
EXTENDS Integers, Sequences, FiniteSets, TLC

(* ===== Constants of apu.js ===== *)
NTSC_CPU_HZ == 1789773

FRAME_HZ == 240

LENGTH_TABLE ==
  << 10, 254, 20,  2, 40,  4, 80,  6,
    160,  8, 60, 10, 14, 12, 26, 14,
     12, 16, 24, 18, 48, 20, 96, 22,
    192, 24, 72, 26, 16, 28, 32, 30 >>

DMC_RATES ==
  << 428, 380, 340, 320, 286, 254, 226, 214,
     190, 160, 142, 128, 106,  85,  72,  54 >>

NOISE_PERIODS ==
  <<   4,   8,  16,  32,  64,  96, 128, 160,
     202, 254, 380, 508, 762, 1016, 2034, 4068 >>

(* ===== Bounds ===== *)
\* slots of the audio ring buffer (the program allocates BUFFER * 8)
RbLen == 4

\* samples offered to the ring buffer in one run
MaxSamples == 6

\* sequence wraps followed after the last $4017 write
MaxWraps == 1

\* single-cycle step calls are made this close to a timing boundary
FineCycles == 3

\* the number of PPU register accesses a behaviour makes
MaxPpuCalls == 4

\* the number of 5-step $4017 writes, each ticking every channel at once,
\* a behaviour of the register specification makes
MaxTickWrites == 3

\* cycles handed to one long step call: the whole cycles of a quarter period
LongStep == NTSC_CPU_HZ \div FRAME_HZ

(* ===== Bit helpers (JavaScript &, >> on bytes) ===== *)
Bit(n, k) == (n \div (2 ^ k)) % 2

BitSet(n, k) == Bit(n, k) = 1

(* ===== Envelope ===== *)
EnvelopeNew ==
  [loop |-> FALSE, constantVolume |-> FALSE, volume |-> 0,
   start |-> FALSE, decay |-> 0, divider |-> 0]

EnvWrite(e, n) ==
  [e EXCEPT !.loop = BitSet(n, 5),
            !.constantVolume = BitSet(n, 4),
            !.volume = n % 16]

EnvRestart(e) == [e EXCEPT !.start = TRUE]

EnvQuarter_NoFloor(e) ==
  IF e.start
    THEN [e EXCEPT !.start = FALSE, !.decay = 15, !.divider = e.volume]
    ELSE IF e.divider = 0
      THEN [e EXCEPT !.divider = e.volume,
                     !.decay = IF e.loop /\ e.decay = 0 THEN 15 ELSE e.decay - 1]
      ELSE [e EXCEPT !.divider = e.divider - 1]

EnvQuarter_NoLoop(e) ==
  IF e.start
    THEN [e EXCEPT !.start = FALSE, !.decay = 15, !.divider = e.volume]
    ELSE IF e.divider = 0
      THEN [e EXCEPT !.divider = e.volume,
                     !.decay = IF e.decay > 0 THEN e.decay - 1 ELSE e.decay]
      ELSE [e EXCEPT !.divider = e.divider - 1]

EnvQuarter(e) ==
  IF e.start
    THEN [e EXCEPT !.start = FALSE, !.decay = 15, !.divider = e.volume]
    ELSE IF e.divider = 0
      THEN [e EXCEPT !.divider = e.volume,
                     !.decay = IF e.decay > 0 THEN e.decay - 1
                               ELSE IF e.loop THEN 15 ELSE e.decay]
      ELSE [e EXCEPT !.divider = e.divider - 1]

EnvOut(e) == IF e.constantVolume THEN e.volume ELSE e.decay

(* ===== Length counter ===== *)
LengthNew == [value |-> 0, halt |-> FALSE]

LengthLoad(l, index) == [l EXCEPT !.value = LENGTH_TABLE[(index % 32) + 1]]

LengthHalf_IgnoreHalt(l) ==
  IF l.value > 0 THEN [l EXCEPT !.value = l.value - 1] ELSE l

LengthHalf(l) ==
  IF ~l.halt /\ l.value > 0 THEN [l EXCEPT !.value = l.value - 1] ELSE l

LengthZero(l) == l.value = 0

(* ===== Sweep / Pulse ===== *)
SweepNew(isPulse1) ==
  [isPulse1 |-> isPulse1, enabled |-> FALSE, period |-> 0, negate |-> FALSE,
   shift |-> 0, counter |-> 0, reload |-> FALSE]

SweepWrite(sw, n) ==
  [sw EXCEPT !.enabled = BitSet(n, 7),
             !.period = (n \div 16) % 8,
             !.negate = BitSet(n, 3),
             !.shift = n % 8,
             !.reload = TRUE]

\* Sweep.target(), p being this.pulse.timer
SweepTarget(sw, p) ==
  LET change == p \div (2 ^ sw.shift)
      t == IF sw.negate THEN p - change ELSE p + change
  IN  IF sw.shift = 0 THEN p
      ELSE IF sw.negate /\ sw.isPulse1 THEN t - 1 ELSE t

PulseNew(isPulse1) ==
  [enabled |-> FALSE, env |-> EnvelopeNew, len |-> LengthNew,
   sweep |-> SweepNew(isPulse1), duty |-> 0, dutyStep |-> 0,
   timer |-> 0, timerCnt |-> 0]

SweepHalf_NoLimit(c) ==
  LET sw == c.sweep
      t == SweepTarget(sw, c.timer)
      timer1 == IF sw.counter = 0 /\ sw.enabled /\ sw.shift # 0
                   /\ c.timer >= 8
                THEN t ELSE c.timer
      counter1 == IF sw.counter = 0 THEN sw.period ELSE sw.counter - 1
      counter2 == IF sw.reload THEN sw.period ELSE counter1
  IN  [c EXCEPT !.timer = timer1,
                !.sweep = [sw EXCEPT !.counter = counter2, !.reload = FALSE]]

\* Sweep.half() on the sweep of pulse channel c: c with the sweep's fields
\* and the timer it reaches through its back-reference updated
SweepHalf(c) ==
  LET sw == c.sweep
      t == SweepTarget(sw, c.timer)
      timer1 == IF sw.counter = 0 /\ sw.enabled /\ sw.shift # 0
                   /\ t < 2048 /\ c.timer >= 8
                THEN t ELSE c.timer
      counter1 == IF sw.counter = 0 THEN sw.period ELSE sw.counter - 1
      counter2 == IF sw.reload THEN sw.period ELSE counter1
  IN  [c EXCEPT !.timer = timer1,
                !.sweep = [sw EXCEPT !.counter = counter2, !.reload = FALSE]]

PulseWrite0(c, n) ==
  [c EXCEPT !.env = EnvWrite(c.env, n),
            !.len = [c.len EXCEPT !.halt = BitSet(n, 5)],
            !.duty = (n \div 64) % 4]

PulseWrite1(c, n) == [c EXCEPT !.sweep = SweepWrite(c.sweep, n)]

PulseWrite2(c, n) == [c EXCEPT !.timer = ((c.timer \div 256) % 8) * 256 + n]

PulseWrite3(c, n) ==
  [c EXCEPT !.timer = (c.timer % 256) + (n % 8) * 256,
            !.len = IF c.enabled THEN LengthLoad(c.len, (n \div 8) % 32)
                    ELSE c.len,
            !.env = EnvRestart(c.env),
            !.dutyStep = 0]

PulseSetEnabled_KeepLength(c, on) == [c EXCEPT !.enabled = on]

PulseSetEnabled(c, on) ==
  [c EXCEPT !.enabled = on,
            !.len = IF on THEN c.len ELSE [c.len EXCEPT !.value = 0]]

PulseQuarter(c) == [c EXCEPT !.env = EnvQuarter(c.env)]

PulseHalf_SweepOnly(c) == SweepHalf(c)

\* Pulse.half()
PulseHalf(c) == SweepHalf([c EXCEPT !.len = LengthHalf(c.len)])

\* Pulse.clock()
PulseClock(c) ==
  IF c.timerCnt = 0
    THEN [c EXCEPT !.timerCnt = c.timer, !.dutyStep = (c.dutyStep + 1) % 8]
    ELSE [c EXCEPT !.timerCnt = c.timerCnt - 1]

\* Pulse.out(): the DUTY table
DUTY ==
  << <<0, 0, 0, 0, 0, 0, 0, 1>>,
     <<0, 0, 0, 0, 0, 0, 1, 1>>,
     <<0, 0, 0, 0, 1, 1, 1, 1>>,
     <<1, 1, 1, 1, 1, 1, 0, 0>> >>

\* Pulse.out()
PulseOut(c) ==
  IF ~c.enabled \/ LengthZero(c.len) \/ c.timer < 8 THEN 0
  ELSE IF DUTY[c.duty + 1][c.dutyStep + 1] # 0 THEN EnvOut(c.env) ELSE 0

(* ===== Triangle ===== *)
TriangleNew ==
  [enabled |-> FALSE, len |-> LengthNew, control |-> FALSE,
   linearReload |-> 0, linear |-> 0, reloadFlag |-> FALSE,
   timer |-> 0, timerCnt |-> 0, step |-> 0]

TriangleWrite0(c, n) ==
  [c EXCEPT !.control = BitSet(n, 7),
            !.len = [c.len EXCEPT !.halt = BitSet(n, 7)],
            !.linearReload = n % 128]

TriangleWrite3_LoadAlways(c, n) ==
  [c EXCEPT !.timer = (c.timer % 256) + (n % 8) * 256,
            !.len = LengthLoad(c.len, (n \div 8) % 32),
            !.reloadFlag = TRUE]

TriangleWrite3(c, n) ==
  [c EXCEPT !.timer = (c.timer % 256) + (n % 8) * 256,
            !.len = IF c.enabled THEN LengthLoad(c.len, (n \div 8) % 32)
                    ELSE c.len,
            !.reloadFlag = TRUE]

TriangleSetEnabled(c, on) ==
  [c EXCEPT !.enabled = on,
            !.len = IF on THEN c.len ELSE [c.len EXCEPT !.value = 0]]

TriangleQuarter_HoldOnControl(c) ==
  [c EXCEPT !.linear = IF c.reloadFlag THEN c.linearReload
                       ELSE IF c.linear > 0 /\ ~c.control THEN c.linear - 1
                       ELSE c.linear,
            !.reloadFlag = IF ~c.control THEN FALSE ELSE c.reloadFlag]

TriangleQuarter(c) ==
  [c EXCEPT !.linear = IF c.reloadFlag THEN c.linearReload
                       ELSE IF c.linear > 0 THEN c.linear - 1 ELSE c.linear,
            !.reloadFlag = IF ~c.control THEN FALSE ELSE c.reloadFlag]

TriangleHalf(c) == [c EXCEPT !.len = LengthHalf(c.len)]

\* Triangle.out(), the TRI table within
TriangleOut(c) ==
  IF ~c.enabled \/ LengthZero(c.len) \/ c.linear = 0 \/ c.timer < 2 THEN 0
  ELSE << 15, 14, 13, 12, 11, 10, 9, 8, 7, 6, 5, 4, 3, 2, 1, 0,
          0, 1, 2, 3, 4, 5, 6, 7, 8, 9, 10, 11, 12, 13, 14, 15 >>[c.step + 1]

(* ===== Noise ===== *)
NoiseNew ==
  [enabled |-> FALSE, env |-> EnvelopeNew, len |-> LengthNew,
   mode |-> 0, periodIdx |-> 0, timerCnt |-> 0, lfsr |-> 1]

NoiseWrite0(c, n) ==
  [c EXCEPT !.env = EnvWrite(c.env, n),
            !.len = [c.len EXCEPT !.halt = BitSet(n, 5)]]

NoiseWrite2(c, n) ==
  [c EXCEPT !.mode = Bit(n, 7), !.periodIdx = n % 16]

NoiseWrite3(c, n) ==
  [c EXCEPT !.len = IF c.enabled THEN LengthLoad(c.len, (n \div 8) % 32)
                    ELSE c.len,
            !.env = EnvRestart(c.env)]

NoiseSetEnabled(c, on) ==
  [c EXCEPT !.enabled = on,
            !.len = IF on THEN c.len ELSE [c.len EXCEPT !.value = 0]]

NoiseHalf(c) == [c EXCEPT !.len = LengthHalf(c.len)]

NoiseClock_TapBit6(c) ==
  IF c.timerCnt = 0
    THEN LET bit0 == c.lfsr % 2
             tap == Bit(c.lfsr, 6)
             fb == (bit0 + tap) % 2
         IN  [c EXCEPT !.timerCnt = NOISE_PERIODS[c.periodIdx + 1],
                       !.lfsr = (c.lfsr \div 2) + fb * 16384]
    ELSE [c EXCEPT !.timerCnt = c.timerCnt - 1]

NoiseClock_AndFeedback(c) ==
  IF c.timerCnt = 0
    THEN LET bit0 == c.lfsr % 2
             tap == IF c.mode # 0 THEN Bit(c.lfsr, 6) ELSE Bit(c.lfsr, 1)
             fb == bit0 * tap
         IN  [c EXCEPT !.timerCnt = NOISE_PERIODS[c.periodIdx + 1],
                       !.lfsr = (c.lfsr \div 2) + fb * 16384]
    ELSE [c EXCEPT !.timerCnt = c.timerCnt - 1]

\* Noise.clock()
NoiseClock(c) ==
  IF c.timerCnt = 0
    THEN LET bit0 == c.lfsr % 2
             tap == IF c.mode # 0 THEN Bit(c.lfsr, 6) ELSE Bit(c.lfsr, 1)
             fb == (bit0 + tap) % 2
         IN  [c EXCEPT !.timerCnt = NOISE_PERIODS[c.periodIdx + 1],
                       !.lfsr = (c.lfsr \div 2) + fb * 16384]
    ELSE [c EXCEPT !.timerCnt = c.timerCnt - 1]

RECURSIVE NoiseClocks(_, _)
\* n calls of clock() in a row
NoiseClocks(c, n) ==
  IF n = 0 THEN c ELSE NoiseClocks(NoiseClock(c), n - 1)

\* Noise.out()
NoiseOut(c) ==
  IF ~c.enabled \/ LengthZero(c.len) \/ c.lfsr % 2 = 1 THEN 0
  ELSE EnvOut(c.env)

(* ===== DMC ===== *)
DmcNew ==
  [enabled |-> FALSE, irqEnable |-> FALSE, loop |-> FALSE, rateIdx |-> 0,
   timer |-> DMC_RATES[1], timerCnt |-> 0,
   sampleAddr0 |-> 49152, sampleLen0 |-> 1,
   currentAddr |-> 0, bytesRemaining |-> 0,
   sampleBufferEmpty |-> TRUE, sampleBuffer |-> 0,
   shiftReg |-> 0, bitsRemaining |-> 0,
   dac |-> 0, irq |-> FALSE]

DmcWrite0_KeepIrq(d, n) ==
  [d EXCEPT !.irqEnable = BitSet(n, 7),
            !.loop = BitSet(n, 6),
            !.rateIdx = n % 16,
            !.timer = DMC_RATES[(n % 16) + 1]]

\* write0(n)
DmcWrite0(d, n) ==
  [d EXCEPT !.irqEnable = BitSet(n, 7),
            !.irq = IF ~BitSet(n, 7) THEN FALSE ELSE d.irq,
            !.loop = BitSet(n, 6),
            !.rateIdx = n % 16,
            !.timer = DMC_RATES[(n % 16) + 1]]

DmcSetEnabled(d, on) ==
  IF on /\ ~d.enabled
    THEN IF d.bytesRemaining = 0
           THEN [d EXCEPT !.enabled = TRUE,
                          !.currentAddr = d.sampleAddr0,
                          !.bytesRemaining = d.sampleLen0]
           ELSE [d EXCEPT !.enabled = TRUE]
    ELSE IF ~on
      THEN [d EXCEPT !.enabled = FALSE, !.bytesRemaining = 0, !.irq = FALSE]
      ELSE d

\* The DMC together with what it has asked of the processor during one
\* call: the addresses handed to cpuRead and the cycles handed to cpuStall.
DmcCall(d) == [d |-> d, reads |-> <<>>, stall |-> 0]

DmcRefill_WrapTo8000(x, data) ==
  IF ~x.d.sampleBufferEmpty \/ x.d.bytesRemaining = 0 THEN x
  ELSE
    LET d == x.d
        rem == d.bytesRemaining - 1
    IN  [d |-> [d EXCEPT
                  !.sampleBuffer = data % 256,
                  !.sampleBufferEmpty = FALSE,
                  !.currentAddr = IF rem = 0 /\ d.loop THEN d.sampleAddr0
                                  ELSE IF d.currentAddr = 65535 THEN 32768
                                  ELSE d.currentAddr + 1,
                  !.bytesRemaining = IF rem = 0 /\ d.loop THEN d.sampleLen0
                                     ELSE rem,
                  !.irq = IF rem = 0 /\ ~d.loop /\ d.irqEnable THEN TRUE
                          ELSE d.irq],
         reads |-> Append(x.reads, d.currentAddr % 65536),
         stall |-> x.stall + 4]

\* refillBufferIfNeeded(), data being the byte cpuRead returns
DmcRefill_IrqUnmasked(x, data) ==
  IF ~x.d.sampleBufferEmpty \/ x.d.bytesRemaining = 0 THEN x
  ELSE
    LET d == x.d
        rem == d.bytesRemaining - 1
    IN  [d |-> [d EXCEPT
                  !.sampleBuffer = data % 256,
                  !.sampleBufferEmpty = FALSE,
                  !.currentAddr = IF rem = 0 /\ d.loop THEN d.sampleAddr0
                                  ELSE (d.currentAddr + 1) % 65536,
                  !.bytesRemaining = IF rem = 0 /\ d.loop THEN d.sampleLen0
                                     ELSE rem,
                  !.irq = IF rem = 0 /\ ~d.loop THEN TRUE ELSE d.irq],
         reads |-> Append(x.reads, d.currentAddr % 65536),
         stall |-> x.stall + 4]

DmcRefill_IrqOnLoop(x, data) ==
  IF ~x.d.sampleBufferEmpty \/ x.d.bytesRemaining = 0 THEN x
  ELSE
    LET d == x.d
        rem == d.bytesRemaining - 1
    IN  [d |-> [d EXCEPT
                  !.sampleBuffer = data % 256,
                  !.sampleBufferEmpty = FALSE,
                  !.currentAddr = IF rem = 0 /\ d.loop THEN d.sampleAddr0
                                  ELSE (d.currentAddr + 1) % 65536,
                  !.bytesRemaining = IF rem = 0 /\ d.loop THEN d.sampleLen0
                                     ELSE rem,
                  !.irq = IF rem = 0 /\ d.irqEnable THEN TRUE ELSE d.irq],
         reads |-> Append(x.reads, d.currentAddr % 65536),
         stall |-> x.stall + 4]

DmcRefill(x, data) ==
  IF ~x.d.sampleBufferEmpty \/ x.d.bytesRemaining = 0 THEN x
  ELSE
    LET d == x.d
        rem == d.bytesRemaining - 1
    IN  [d |-> [d EXCEPT
                  !.sampleBuffer = data % 256,
                  !.sampleBufferEmpty = FALSE,
                  !.currentAddr = IF rem = 0 /\ d.loop THEN d.sampleAddr0
                                  ELSE (d.currentAddr + 1) % 65536,
                  !.bytesRemaining = IF rem = 0 /\ d.loop THEN d.sampleLen0
                                     ELSE rem,
                  !.irq = IF rem = 0 /\ ~d.loop /\ d.irqEnable THEN TRUE
                          ELSE d.irq],
         reads |-> Append(x.reads, d.currentAddr % 65536),
         stall |-> x.stall + 4]

DmcClock_NoCeiling(x0, data1, data2) ==
  LET x == DmcRefill(x0, data1)
      d == x.d
  IN  IF d.timerCnt = 0
        THEN IF d.bitsRemaining = 0
          THEN IF ~d.sampleBufferEmpty
            THEN DmcRefill(
                   [x EXCEPT !.d = [d EXCEPT !.timerCnt = d.timer,
                                             !.shiftReg = d.sampleBuffer,
                                             !.sampleBufferEmpty = TRUE,
                                             !.bitsRemaining = 8]],
                   data2)
            ELSE [x EXCEPT !.d = [d EXCEPT !.timerCnt = d.timer]]
          ELSE [x EXCEPT !.d =
                 [d EXCEPT !.timerCnt = d.timer,
                           !.dac = IF d.shiftReg % 2 = 1 THEN d.dac + 2
                                   ELSE IF d.dac >= 2 THEN d.dac - 2 ELSE d.dac,
                           !.shiftReg = d.shiftReg \div 2,
                           !.bitsRemaining = d.bitsRemaining - 1]]
        ELSE [x EXCEPT !.d = [d EXCEPT !.timerCnt = d.timerCnt - 1]]

\* clock(), data1 and data2 being the bytes cpuRead returns to the refill
\* tried on entry and to the one tried after the shifter took the buffer
DmcClock(x0, data1, data2) ==
  LET x == DmcRefill(x0, data1)
      d == x.d
  IN  IF d.timerCnt = 0
        THEN IF d.bitsRemaining = 0
          THEN IF ~d.sampleBufferEmpty
            THEN DmcRefill(
                   [x EXCEPT !.d = [d EXCEPT !.timerCnt = d.timer,
                                             !.shiftReg = d.sampleBuffer,
                                             !.sampleBufferEmpty = TRUE,
                                             !.bitsRemaining = 8]],
                   data2)
            ELSE [x EXCEPT !.d = [d EXCEPT !.timerCnt = d.timer]]
          ELSE [x EXCEPT !.d =
                 [d EXCEPT !.timerCnt = d.timer,
                           !.dac = IF d.shiftReg % 2 = 1
                                     THEN IF d.dac <= 125 THEN d.dac + 2 ELSE d.dac
                                     ELSE IF d.dac >= 2 THEN d.dac - 2 ELSE d.dac,
                           !.shiftReg = d.shiftReg \div 2,
                           !.bitsRemaining = d.bitsRemaining - 1]]
        ELSE [x EXCEPT !.d = [d EXCEPT !.timerCnt = d.timerCnt - 1]]

(* ===== APU core ===== *)
\* The fields of the APU object.  seqTime is kept in units of 1/FRAME_HZ of
\* a CPU cycle, so that qPeriod = NTSC_CPU_HZ / 240 is the integer
\* NTSC_CPU_HZ: the comparisons against qPeriod * k are then exact.  (In the
\* program they are made on doubles; seqTime is an integer until the first
\* wrap and an integer plus a multiple of 0.05 after it, which is at least
\* 0.0125 away from qPeriod * 1, * 2 and * 3.)
ApuNew ==
  [pulse1 |-> PulseNew(TRUE), pulse2 |-> PulseNew(FALSE),
   triangle |-> TriangleNew, noise |-> NoiseNew,
   frameIRQ |-> FALSE, mode5 |-> FALSE, irqInhibit |-> TRUE,
   seqTime |-> 0, phase |-> 0]

qPeriod == NTSC_CPU_HZ

\* The APU, its DMC, the level last handed to onIRQ ("none" before the
\* first call) and the frame ticks handed to the channels.
MachineNew ==
  [apu |-> ApuNew, dmc |-> DmcNew, irqLine |-> "none",
   ticks |-> <<>>, wrapped |-> FALSE]

UpdateIRQLine(m) ==
  [m EXCEPT !.irqLine = IF m.dmc.irq \/ m.apu.frameIRQ THEN "high" ELSE "low"]

ClockQuarter(m) ==
  [m EXCEPT !.apu.pulse1 = PulseQuarter(@),
            !.apu.pulse2 = PulseQuarter(@),
            !.apu.triangle = TriangleQuarter(@),
            !.apu.noise.env = EnvQuarter(@),
            !.ticks = Append(@, "quarter")]

ClockQuarterHalf_NoQuarter(m) ==
  [m EXCEPT !.apu.pulse1 = PulseHalf(@),
            !.apu.pulse2 = PulseHalf(@),
            !.apu.triangle = TriangleHalf(@),
            !.apu.noise = NoiseHalf(@),
            !.ticks = Append(@, "half")]

ClockQuarterHalf(m) ==
  LET q == ClockQuarter(m)
  IN  [q EXCEPT !.apu.pulse1 = PulseHalf(@),
                !.apu.pulse2 = PulseHalf(@),
                !.apu.triangle = TriangleHalf(@),
                !.apu.noise = NoiseHalf(@),
                !.ticks = Append(@, "half")]

\* APU.write(addr, v)
ApuWrite(m, addr, v0) ==
  LET v == v0 % 256
  IN  CASE addr = \h4000 -> [m EXCEPT !.apu.pulse1 = PulseWrite0(@, v)]
        [] addr = \h4001 -> [m EXCEPT !.apu.pulse1 = PulseWrite1(@, v)]
        [] addr = \h4002 -> [m EXCEPT !.apu.pulse1 = PulseWrite2(@, v)]
        [] addr = \h4003 -> [m EXCEPT !.apu.pulse1 = PulseWrite3(@, v)]
        [] addr = \h4004 -> [m EXCEPT !.apu.pulse2 = PulseWrite0(@, v)]
        [] addr = \h4005 -> [m EXCEPT !.apu.pulse2 = PulseWrite1(@, v)]
        [] addr = \h4006 -> [m EXCEPT !.apu.pulse2 = PulseWrite2(@, v)]
        [] addr = \h4007 -> [m EXCEPT !.apu.pulse2 = PulseWrite3(@, v)]
        [] addr = \h4008 -> [m EXCEPT !.apu.triangle = TriangleWrite0(@, v)]
        [] addr = \h400A -> [m EXCEPT !.apu.triangle.timer = ((@ \div 256) % 8) * 256 + v]
        [] addr = \h400B -> [m EXCEPT !.apu.triangle = TriangleWrite3(@, v)]
        [] addr = \h400C -> [m EXCEPT !.apu.noise = NoiseWrite0(@, v)]
        [] addr = \h400E -> [m EXCEPT !.apu.noise = NoiseWrite2(@, v)]
        [] addr = \h400F -> [m EXCEPT !.apu.noise = NoiseWrite3(@, v)]
        [] addr = \h4010 -> [m EXCEPT !.dmc = DmcWrite0(@, v)]
        [] addr = \h4011 -> [m EXCEPT !.dmc.dac = v % 128]
        [] addr = \h4012 -> [m EXCEPT !.dmc.sampleAddr0 = 49152 + (v % 256) * 64]
        [] addr = \h4013 -> [m EXCEPT !.dmc.sampleLen0 = (v % 256) * 16 + 1]
        [] addr = \h4015 ->
             UpdateIRQLine(
               [m EXCEPT !.apu.pulse1 = PulseSetEnabled(@, BitSet(v, 0)),
                         !.apu.pulse2 = PulseSetEnabled(@, BitSet(v, 1)),
                         !.apu.triangle = TriangleSetEnabled(@, BitSet(v, 2)),
                         !.apu.noise = NoiseSetEnabled(@, BitSet(v, 3)),
                         !.dmc = LET d == DmcSetEnabled(@, BitSet(v, 4))
                                 IN  IF ~BitSet(v, 4)
                                       THEN [d EXCEPT !.irq = FALSE] ELSE d])
        [] addr = \h4017 ->
             LET w == [m EXCEPT !.apu.mode5 = BitSet(v, 7),
                                !.apu.irqInhibit = BitSet(v, 6),
                                !.apu.frameIRQ = IF BitSet(v, 6) THEN FALSE ELSE @,
                                !.apu.seqTime = 0]
             IN  UpdateIRQLine(IF w.apu.mode5 THEN ClockQuarterHalf(w) ELSE w)
        [] OTHER -> m

StatusByte_DmcOnBit5(m) ==
    (IF LengthZero(m.apu.pulse1.len) THEN 0 ELSE 1)
  + (IF LengthZero(m.apu.pulse2.len) THEN 0 ELSE 2)
  + (IF LengthZero(m.apu.triangle.len) THEN 0 ELSE 4)
  + (IF LengthZero(m.apu.noise.len) THEN 0 ELSE 8)
  + (IF m.dmc.bytesRemaining > 0 THEN 32 ELSE 0)
  + (IF m.apu.frameIRQ THEN \h40 ELSE 0)
  + (IF m.dmc.irq THEN \h80 ELSE 0)

\* the byte APU.read($4015) computes before it clears the flags
StatusByte(m) ==
    (IF LengthZero(m.apu.pulse1.len) THEN 0 ELSE 1)
  + (IF LengthZero(m.apu.pulse2.len) THEN 0 ELSE 2)
  + (IF LengthZero(m.apu.triangle.len) THEN 0 ELSE 4)
  + (IF LengthZero(m.apu.noise.len) THEN 0 ELSE 8)
  + (IF m.dmc.bytesRemaining > 0 THEN 16 ELSE 0)
  + (IF m.apu.frameIRQ THEN \h40 ELSE 0)
  + (IF m.dmc.irq THEN \h80 ELSE 0)

\* APU.read(addr): the value returned and the machine after the call
ApuRead_AnyAddr(m, addr) ==
  [ret |-> StatusByte(m),
   m |-> UpdateIRQLine([m EXCEPT !.apu.frameIRQ = FALSE, !.dmc.irq = FALSE])]

ApuRead(m, addr) ==
  IF addr # \h4015 THEN [ret |-> 0, m |-> m]
  ELSE [ret |-> StatusByte(m),
        m |-> UpdateIRQLine([m EXCEPT !.apu.frameIRQ = FALSE, !.dmc.irq = FALSE])]

SeqBoundary2_QuarterOnly(m, t) ==
  IF m.apu.phase = 1 /\ t >= qPeriod * 2
    THEN [ClockQuarter(m) EXCEPT !.apu.phase = 2] ELSE m

\* step(): if (this._phase === 1 && t >= q2) ...
SeqBoundary2(m, t) ==
  IF m.apu.phase = 1 /\ t >= qPeriod * 2
    THEN [ClockQuarterHalf(m) EXCEPT !.apu.phase = 2] ELSE m

\* step(): the frame sequencer part of one iteration of the loop
SeqCycle_WrapToZero(m0) ==
  LET t  == m0.apu.seqTime + FRAME_HZ
      ma == [m0 EXCEPT !.apu.seqTime = t]
      m1 == IF ma.apu.phase = 0 /\ t >= qPeriod * 1
              THEN [ClockQuarter(ma) EXCEPT !.apu.phase = 1] ELSE ma
      m2 == SeqBoundary2(m1, t)
      m3 == IF m2.apu.phase = 2 /\ t >= qPeriod * 3
              THEN [ClockQuarter(m2) EXCEPT !.apu.phase = 3] ELSE m2
  IN  IF m3.apu.phase = 3 /\ t >= qPeriod * 4
        THEN LET h == ClockQuarterHalf(m3)
                 f == [h EXCEPT !.apu.frameIRQ =
                         IF ~h.apu.mode5 /\ ~h.apu.irqInhibit THEN TRUE ELSE @]
             IN  [UpdateIRQLine(f) EXCEPT !.apu.seqTime = 0,
                                          !.apu.phase = 0,
                                          !.wrapped = TRUE]
        ELSE m3

SeqCycle(m0) ==
  LET t  == m0.apu.seqTime + FRAME_HZ
      ma == [m0 EXCEPT !.apu.seqTime = t]
      m1 == IF ma.apu.phase = 0 /\ t >= qPeriod * 1
              THEN [ClockQuarter(ma) EXCEPT !.apu.phase = 1] ELSE ma
      m2 == SeqBoundary2(m1, t)
      m3 == IF m2.apu.phase = 2 /\ t >= qPeriod * 3
              THEN [ClockQuarter(m2) EXCEPT !.apu.phase = 3] ELSE m2
  IN  IF m3.apu.phase = 3 /\ t >= qPeriod * 4
        THEN LET h == ClockQuarterHalf(m3)
                 f == [h EXCEPT !.apu.frameIRQ =
                         IF ~h.apu.mode5 /\ ~h.apu.irqInhibit THEN TRUE ELSE @]
             IN  [UpdateIRQLine(f) EXCEPT !.apu.seqTime = @ - qPeriod * 4,
                                          !.apu.phase = 0,
                                          !.wrapped = TRUE]
        ELSE m3

RECURSIVE SeqCycles(_, _)
\* step(cycles): the frame sequencer over the whole loop.  The iterations
\* are split in halves and the first half is evaluated before the second
\* is begun, which keeps the evaluation shallow.
SeqCycles(m, cycles) ==
  IF cycles = 0 THEN m
  ELSE IF cycles = 1 THEN SeqCycle(m)
  ELSE LET half == SeqCycles(m, cycles \div 2)
       IN  IF half.wrapped \in BOOLEAN
             THEN SeqCycles(half, cycles - (cycles \div 2))
             ELSE half

\* a sequence that has wrapped is over: the next call starts a new tick log
Fresh(m) ==
  IF m.wrapped THEN [m EXCEPT !.ticks = <<>>, !.wrapped = FALSE] ELSE m

SeqStartOf(m) ==
  [phase |-> m.apu.phase, seqTime |-> m.apu.seqTime, mode5 |-> m.apu.mode5,
   irqInhibit |-> m.apu.irqInhibit]

RECURSIVE DmcCycles(_, _, _)
\* step(cycles) as far as the DMC goes, cpuRead returning data throughout;
\* the first half of the iterations is evaluated before the second is begun
DmcCycles(x, cycles, data) ==
  IF cycles = 0 THEN x
  ELSE IF cycles = 1 THEN DmcClock(x, data, data)
  ELSE LET half == DmcCycles(x, cycles \div 2, data)
       IN  IF half.stall >= 0
             THEN DmcCycles(half, cycles - (cycles \div 2), data)
             ELSE half

\* step(): one iteration of the loop, dmc.clock() first and the frame
\* sequencer after it
ApuCycle(m, data) ==
  SeqCycle([m EXCEPT !.dmc = DmcClock(DmcCall(m.dmc), data, data).d])

RECURSIVE ApuCycles(_, _, _)
\* step(cycles), cpuRead returning data throughout; the first half of the
\* iterations is evaluated before the second is begun
ApuCycles(m, cycles, data) ==
  IF cycles = 0 THEN m
  ELSE IF cycles = 1 THEN ApuCycle(m, data)
  ELSE LET half == ApuCycles(m, cycles \div 2, data)
       IN  IF half.wrapped \in BOOLEAN
             THEN ApuCycles(half, cycles - (cycles \div 2), data)
             ELSE half

NoPlay == [active |-> FALSE, addr |-> 0, len |-> 0, n |-> 0]

\* the sample being followed after a register write took the DMC from d to e:
\* a start with loop clear begins one, a stop ends it
PlayAfterWrite(pl, d, e) ==
  IF d.bytesRemaining = 0 /\ e.bytesRemaining > 0
    THEN IF e.loop THEN NoPlay
         ELSE [active |-> TRUE, addr |-> e.currentAddr,
               len |-> e.bytesRemaining, n |-> 0]
    ELSE IF ~e.enabled \/ e.loop THEN NoPlay ELSE pl

(* ===== Mixer ===== *)
\* The mixer computes with JavaScript numbers; the model computes the same
\* expressions exactly, over fractions of natural numbers of any size.  A
\* natural number is the sequence of its digits to the base LimbBase, least
\* significant first, without leading zeroes.
LimbBase == 10000

RECURSIVE BigOf(_)
BigOf(n) ==
  IF n = 0 THEN <<>> ELSE <<n % LimbBase>> \o BigOf(n \div LimbBase)

RECURSIVE BigTrim(_)
BigTrim(x) ==
  IF x = <<>> THEN x
  ELSE IF x[Len(x)] = 0 THEN BigTrim(SubSeq(x, 1, Len(x) - 1))
  ELSE x

RECURSIVE BigAddC(_, _, _)
BigAddC(x, y, c) ==
  IF x = <<>> /\ y = <<>> THEN BigOf(c)
  ELSE LET s == (IF x = <<>> THEN 0 ELSE Head(x))
                  + (IF y = <<>> THEN 0 ELSE Head(y)) + c
       IN  <<s % LimbBase>>
             \o BigAddC(IF x = <<>> THEN x ELSE Tail(x),
                        IF y = <<>> THEN y ELSE Tail(y), s \div LimbBase)

RECURSIVE BigScaleC(_, _, _)
\* x * k + c for one digit k
BigScaleC(x, k, c) ==
  IF x = <<>> THEN BigOf(c)
  ELSE LET s == Head(x) * k + c
       IN  <<s % LimbBase>> \o BigScaleC(Tail(x), k, s \div LimbBase)

RECURSIVE BigMul(_, _)
BigMul(x, y) ==
  IF x = <<>> \/ y = <<>> THEN <<>>
  ELSE LET rest == BigMul(x, Tail(y))
       IN  BigAddC(BigTrim(BigScaleC(x, Head(y), 0)),
                   IF rest = <<>> THEN rest ELSE <<0>> \o rest, 0)

RECURSIVE BigLess(_, _)
BigLess(x, y) ==
  IF Len(x) # Len(y) THEN Len(x) < Len(y)
  ELSE IF x = <<>> THEN FALSE
  ELSE IF x[Len(x)] # y[Len(y)] THEN x[Len(x)] < y[Len(y)]
  ELSE BigLess(BigTrim(SubSeq(x, 1, Len(x) - 1)),
               BigTrim(SubSeq(y, 1, Len(y) - 1)))

RECURSIVE BigSubB(_, _, _)
\* x - y - b for x >= y + b
BigSubB(x, y, b) ==
  IF x = <<>> THEN <<>>
  ELSE LET s == Head(x) - (IF y = <<>> THEN 0 ELSE Head(y)) - b
       IN  <<(s + LimbBase) % LimbBase>>
             \o BigSubB(Tail(x), IF y = <<>> THEN y ELSE Tail(y),
                        IF s < 0 THEN 1 ELSE 0)

\* the fraction n / d
Rat(n, d) == [num |-> BigOf(n), den |-> BigOf(d)]

RatAdd(a, b) ==
  [num |-> BigAddC(BigMul(a.num, b.den), BigMul(b.num, a.den), 0),
   den |-> BigMul(a.den, b.den)]

RatMul(a, b) ==
  [num |-> BigMul(a.num, b.num), den |-> BigMul(a.den, b.den)]

\* a / b for b # 0
RatDiv(a, b) ==
  [num |-> BigMul(a.num, b.den), den |-> BigMul(a.den, b.num)]

\* a - b, with its sign
RatSub(a, b) ==
  LET l == BigMul(a.num, b.den)
      r == BigMul(b.num, a.den)
  IN  IF BigLess(l, r)
        THEN [neg |-> TRUE, num |-> BigTrim(BigSubB(r, l, 0)),
              den |-> BigMul(a.den, b.den)]
        ELSE [neg |-> FALSE, num |-> BigTrim(BigSubB(l, r, 0)),
              den |-> BigMul(a.den, b.den)]

\* clamp01(x), for x in tenths
Clamp01_NoUpper(x) == IF x < 0 THEN 0 ELSE x

\* clamp01(x), for x in tenths
Clamp01(x) == IF x < 0 THEN 0 ELSE IF x > 10 THEN 10 ELSE x

\* _mix(), on the five outputs and the master volume (in tenths)
Mix(p1, p2, tri, noi, dmc, master) ==
  LET pulseTerm ==
        IF p1 # 0 \/ p2 # 0
          THEN RatDiv(Rat(9588, 100),
                      RatAdd(RatDiv(Rat(8128, 1), Rat(p1 + p2, 1)),
                             Rat(100, 1)))
          ELSE Rat(0, 1)
      tnd == RatAdd(RatAdd(RatDiv(Rat(tri, 1), Rat(8227, 1)),
                           RatDiv(Rat(noi, 1), Rat(12241, 1))),
                    RatDiv(Rat(dmc, 1), Rat(22638, 1)))
      tndTerm ==
        IF tnd.num # <<>>
          THEN RatDiv(Rat(15979, 100),
                      RatAdd(RatDiv(Rat(1, 1), tnd), Rat(100, 1)))
          ELSE Rat(0, 1)
      mixed == RatMul(RatAdd(pulseTerm, tndTerm), Rat(master, 10))
  IN  RatSub(RatMul(mixed, Rat(2, 1)), Rat(1, 1))

(* ===== PPU (ppu.js) ===== *)
\* the values null and undefined, kept apart from every byte
Null == -1

Undefined == -2

\* vram and oam are typed arrays of zeroes; the model keeps the cells that
\* were written, as a function from their indices
PpuNew ==
  [ctrl |-> 0, mask |-> 0, status |-> 0, oamAddr |-> 0,
   scrollX |-> 0, scrollY |-> 0, addr |-> 0, data |-> 0,
   vram |-> <<>>, oam |-> <<>>,
   cycle |-> 0, scanline |-> 0]

\* arr[i] of a Uint8Array of n zeroes whose written cells are cells
ArrGet(cells, n, i) ==
  IF i \in 0..(n - 1)
    THEN IF i \in DOMAIN cells THEN cells[i] ELSE 0
    ELSE Undefined

\* arr[i] = v on such an array: a store outside the array is dropped
ArrSet(cells, n, i, v) ==
  IF i \in 0..(n - 1)
    THEN [j \in (DOMAIN cells) \cup {i} |-> IF j = i THEN v % 256 ELSE cells[j]]
    ELSE cells

PpuReadRegister_NoClear(p, addr) ==
  CASE addr = \h2002 -> [ret |-> p.status, p |-> p]
    [] addr = \h2007 ->
         [ret |-> ArrGet(p.vram, 16384, p.addr),
          p |-> [p EXCEPT !.addr = p.addr + 1]]
    [] OTHER -> [ret |-> 0, p |-> p]

\* readRegister(addr): the value returned and the PPU after the call
PpuReadRegister(p, addr) ==
  CASE addr = \h2002 ->
         [ret |-> p.status, p |-> [p EXCEPT !.status = p.status % 128]]
    [] addr = \h2007 ->
         [ret |-> ArrGet(p.vram, 16384, p.addr),
          p |-> [p EXCEPT !.addr = p.addr + 1]]
    [] OTHER -> [ret |-> 0, p |-> p]

\* writeRegister(addr, value)
PpuWriteRegister(p, addr, value) ==
  CASE addr = \h2000 -> [p EXCEPT !.ctrl = value]
    [] addr = \h2001 -> [p EXCEPT !.mask = value]
    [] addr = \h2003 -> [p EXCEPT !.oamAddr = value]
    [] addr = \h2004 -> [p EXCEPT !.oam = ArrSet(p.oam, 256, p.oamAddr, value),
                                  !.oamAddr = p.oamAddr + 1]
    [] addr = \h2005 ->
         IF p.scrollX = Null THEN [p EXCEPT !.scrollX = value]
         ELSE [p EXCEPT !.scrollY = value, !.scrollX = Null]
    [] addr = \h2006 ->
         \* (addr << 8) | value on a 32-bit integer
         LET low == p.addr % 16777216
         IN  [p EXCEPT !.addr = (IF low >= 8388608
                                   THEN (low - 16777216) * 256
                                   ELSE low * 256) + value]
    [] addr = \h2007 -> [p EXCEPT !.vram = ArrSet(p.vram, 16384, p.addr, value),
                                  !.addr = p.addr + 1]
    [] OTHER -> p

\* The PPU (x.p) together with the number of renderFrame() calls made during
\* the step() calls in progress (x.rendered).
PpuStep_RenderInVblank(x) ==
  LET p == x.p
  IN  IF p.cycle + 1 > 340
        THEN LET line == p.scanline + 1
                 vbl == line >= 241
                 st1 == IF vbl /\ Bit(p.status, 7) = 0
                          THEN p.status + 128 ELSE p.status
             IN  [p |-> [p EXCEPT !.cycle = 0,
                                  !.scanline = IF line >= 262 THEN 0 ELSE line,
                                  !.status = IF line >= 262 THEN st1 % 128 ELSE st1],
                  rendered |-> IF vbl THEN x.rendered + 1 ELSE x.rendered]
        ELSE [x EXCEPT !.p.cycle = p.cycle + 1]

\* step()
PpuStep(x) ==
  LET p == x.p
  IN  IF p.cycle + 1 > 340
        THEN LET line == p.scanline + 1
                 vbl == line = 241
                 st1 == IF vbl /\ Bit(p.status, 7) = 0
                          THEN p.status + 128 ELSE p.status
             IN  [p |-> [p EXCEPT !.cycle = 0,
                                  !.scanline = IF line >= 262 THEN 0 ELSE line,
                                  !.status = IF line >= 262 THEN st1 % 128 ELSE st1],
                  rendered |-> IF vbl THEN x.rendered + 1 ELSE x.rendered]
        ELSE [x EXCEPT !.p.cycle = p.cycle + 1]

\* drawPixel(x, y, color): the index of the first of the four bytes stored,
\* (y * this.screenWidth + x) * 4
DrawPixel(x, y) == (y * 256 + x) * 4

\* (bit1 << 1) | bit0 for column col of the tile tileIndex; both passes read
\* the bytes at tileIndex * 16 and tileIndex * 16 + 8 for every row
TileColorIndex(p, tileIndex, col) ==
  LET patternLow == ArrGet(p.vram, 16384, tileIndex * 16)
      patternHigh == ArrGet(p.vram, 16384, tileIndex * 16 + 8)
  IN  Bit(patternHigh, 7 - col) * 2 + Bit(patternLow, 7 - col)

\* renderBackground(): the drawPixel calls it makes, which are the same
\* whatever the memory holds
RenderBackground ==
  { [x |-> t[2] * 8 + t[4], y |-> t[1] * 8 + t[3],
     idx |-> DrawPixel(t[2] * 8 + t[4], t[1] * 8 + t[3])] :
      t \in (0..29) \X (0..31) \X (0..7) \X (0..7) }

\* renderSprites(): the drawPixel calls it makes, one for each pixel of the
\* 64 sprites whose colour index is not 0
RenderSprites(p) ==
  LET yPos(i) == ArrGet(p.oam, 256, i * 4)
      tileIndex(i) == ArrGet(p.oam, 256, i * 4 + 1)
      xPos(i) == ArrGet(p.oam, 256, i * 4 + 3)
      opaque == { t \in (0..63) \X (0..7) \X (0..7) :
                    TileColorIndex(p, tileIndex(t[1]), t[3]) # 0 }
  IN  { [x |-> xPos(t[1]) + t[3], y |-> yPos(t[1]) + t[2],
         idx |-> DrawPixel(xPos(t[1]) + t[3], yPos(t[1]) + t[2])] :
          t \in opaque }

RECURSIVE PpuSteps(_, _)
\* n calls of step() in a row; the first half of the calls is evaluated
\* before the second is begun
PpuSteps(x, n) ==
  IF n = 0 THEN x
  ELSE IF n = 1 THEN PpuStep(x)
  ELSE LET half == PpuSteps(x, n \div 2)
       IN  IF half.rendered >= 0 THEN PpuSteps(half, n - (n \div 2)) ELSE half

(* ===== State ===== *)
VARIABLES
  lc, lcOp,                 \* a LengthCounter and the last call made on it
  ev,                       \* an Envelope
  rb, rw, rr,               \* APU.rb, APU.rw, APU.rr
  ringOp, deqRet, nextId,   \* last ring call, value _deq returned, next sample
  ppc, pnext, cpc, cval,    \* producer / consumer position and locals
  accepted, returned,       \* samples accepted by the producer / handed out
  machine,                  \* the APU object, its DMC and the onIRQ level
  busOp,                    \* the last call, where a specification records it
  seqStart, wraps,          \* sequencer state when the running sequence
                            \* began; wraps since the last $4017 write
  dma,                      \* addresses the last call handed to cpuRead and
                            \* cycles it handed to cpuStall
  tally,                    \* cycles stepped and sequencer boundaries fired
                            \* since construction; ticking $4017 writes made
  play,                     \* the sample the DMC was last started on
  pu, puOp,                 \* a Pulse channel and the last call made on it
  nz, nzOp,                 \* a Noise channel and the last call made on it
  mix,                      \* channel outputs and master volume given to _mix
  ppu, ppuOp,               \* the PPU object and the last call made on it
  ppuCnt,                   \* calls made on the PPU, $2005 writes among them,
                            \* renderFrame calls since the scanline last wrapped
  waitingForRemap,          \* inputsettings.js: <<player, button>> of the remap
                            \* awaited, <<>> for null
  pollRequested,            \* a requestAnimationFrame(pollGamepads) callback
                            \* is pending
  pressed,                  \* indices of the gamepad buttons held pressed
  remapped                  \* the last remap call made on input

unitVars == <<lc, lcOp, ev>>

apuVars == <<machine, busOp, seqStart, wraps, dma, play, tally>>

ringVars == <<rb, rw, rr, ringOp, deqRet, nextId, ppc, pnext, cpc, cval,
              accepted, returned>>

extVars == <<pu, puOp, nz, nzOp, mix, ppu, ppuOp, ppuCnt>>

pageVars == <<waitingForRemap, pollRequested, pressed, remapped>>

vars == <<unitVars, ringVars, apuVars, extVars, pageVars>>

InitUnits ==
  /\ lc = LengthNew
  /\ lcOp = [op |-> "new", arg |-> 0]
  /\ ev = EnvelopeNew

InitRing ==
  /\ rb = [k \in 0..(RbLen - 1) |-> 0]
  /\ rw = 0
  /\ rr = 0
  /\ ringOp = "new"
  /\ deqRet = 0
  /\ nextId = 1
  /\ ppc = "idle"
  /\ pnext = 0
  /\ cpc = "idle"
  /\ cval = 0
  /\ accepted = <<>>
  /\ returned = <<>>

InitApu ==
  /\ machine = MachineNew
  /\ busOp = [op |-> "none", addr |-> 0, v |-> 0, ret |-> 0]
  /\ seqStart = SeqStartOf(MachineNew)
  /\ wraps = 0
  /\ dma = [reads |-> <<>>, stall |-> 0]
  /\ play = NoPlay
  /\ tally = [cycles |-> 0, boundaries |-> 0, tickWrites |-> 0]

\* the noise channel, the mixer (master = 0.3, no sample mixed yet) and the
\* PPU as their constructors leave them
InitNzMixPpu ==
  /\ nz = NoiseNew
  /\ nzOp = [op |-> "new", n |-> 0, from |-> 1, mode |-> 0]
  /\ mix = [op |-> "new", p1 |-> 0, p2 |-> 0, tri |-> 0, noi |-> 0,
            dmc |-> 0, master |-> 3,
            ret |-> [neg |-> FALSE, num |-> <<>>, den |-> <<1>>]]
  /\ ppu = PpuNew
  /\ ppuOp = [op |-> "new", addr |-> 0, v |-> 0, ret |-> 0, rendered |-> 0]
  /\ ppuCnt = [calls |-> 0, scrollWrites |-> 0, renders |-> 0]

\* inputsettings.js once loaded: no remap awaited, and the pollGamepads() call
\* of line 63 has requested its next call
InitPage ==
  /\ waitingForRemap = <<>>
  /\ pollRequested = TRUE
  /\ pressed = {}
  /\ remapped = [fn |-> "none", player |-> 0, button |-> "", code |-> "",
                 index |-> 0]

InitExt ==
  /\ InitPage
  /\ pu = PulseNew(TRUE)
  /\ puOp = [op |-> "new", timer |-> 0, counter |-> 0]
  /\ InitNzMixPpu

Init == InitUnits /\ InitRing /\ InitApu /\ InitExt

(* ===== Length counter as a unit ===== *)
LcLoad ==
  \E i \in 0..31 :
    /\ lc' = LengthLoad(lc, i)
    /\ lcOp' = [op |-> "load", arg |-> i]
    /\ UNCHANGED <<pageVars, ev, ringVars, apuVars, extVars>>

LcHalf ==
  /\ lc' = LengthHalf(lc)
  /\ lcOp' = [op |-> "half", arg |-> 0]
  /\ UNCHANGED <<pageVars, ev, ringVars, apuVars, extVars>>

LcSetHalt ==
  \E b \in BOOLEAN :
    /\ lc' = [lc EXCEPT !.halt = b]
    /\ lcOp' = [op |-> "halt", arg |-> 0]
    /\ UNCHANGED <<pageVars, ev, ringVars, apuVars, extVars>>

SpecLen == Init /\ [][LcLoad \/ LcHalf \/ LcSetHalt]_vars

(* ===== Envelope as a unit ===== *)
EvWrite ==
  \E n \in 0..255 :
    /\ ev' = EnvWrite(ev, n)
    /\ UNCHANGED <<pageVars, lc, lcOp, ringVars, apuVars, extVars>>

EvRestart ==
  /\ ev' = EnvRestart(ev)
  /\ UNCHANGED <<pageVars, lc, lcOp, ringVars, apuVars, extVars>>

EvQuarter ==
  /\ ev' = EnvQuarter(ev)
  /\ UNCHANGED <<pageVars, lc, lcOp, ringVars, apuVars, extVars>>

SpecEnv == Init /\ [][EvWrite \/ EvRestart \/ EvQuarter]_vars

(* ===== Audio ring buffer, one call at a time ===== *)
\* slots holding a pushed sample that _deq has not yet handed out
Unread(r, w) ==
  {k \in 0..(RbLen - 1) : (k - r + RbLen) % RbLen < (w - r + RbLen) % RbLen}

PushSample_Overrun(b, w, r, s) ==
  [rb |-> [b EXCEPT ![w] = s], rw |-> (w + 1) % RbLen]

\* _pushSample(s): the buffer and write index after the call
PushSample(b, w, r, s) ==
  LET next == (w + 1) % RbLen
  IN  IF next # r THEN [rb |-> [b EXCEPT ![w] = s], rw |-> next]
                  ELSE [rb |-> b, rw |-> w]

\* _deq(): the value returned and the read index after the call
Deq(b, w, r) ==
  IF r = w THEN [ret |-> 0, rr |-> r]
           ELSE [ret |-> b[r], rr |-> (r + 1) % RbLen]

RingPush ==
  /\ nextId <= MaxSamples
  /\ LET p == PushSample(rb, rw, rr, nextId)
     IN  /\ rb' = p.rb
         /\ rw' = p.rw
         /\ accepted' = IF p.rw # rw THEN Append(accepted, nextId) ELSE accepted
  /\ nextId' = nextId + 1
  /\ ringOp' = "push"
  /\ UNCHANGED <<pageVars, rr, deqRet, ppc, pnext, cpc, cval, returned, unitVars, apuVars, extVars>>

RingDeq ==
  /\ LET d == Deq(rb, rw, rr)
     IN  /\ deqRet' = d.ret
         /\ rr' = d.rr
         /\ returned' = IF d.rr # rr THEN Append(returned, d.ret) ELSE returned
  /\ ringOp' = "deq"
  /\ UNCHANGED <<pageVars, rb, rw, nextId, ppc, pnext, cpc, cval, accepted, unitVars, apuVars, extVars>>

SpecRing == Init /\ [][RingPush \/ RingDeq]_vars

(* ===== Audio ring buffer, producer and consumer interleaved ===== *)
\* _pushSample: const next = (this.rw + 1) % this.rb.length
ProdReadRw ==
  /\ ppc = "idle"
  /\ nextId <= MaxSamples
  /\ pnext' = (rw + 1) % RbLen
  /\ ppc' = "cmp"
  /\ UNCHANGED <<pageVars, rb, rw, rr, ringOp, deqRet, nextId, cpc, cval,
                 accepted, returned, unitVars, apuVars, extVars>>

\* _pushSample: if (next !== this.rr)
ProdReadRr ==
  /\ ppc = "cmp"
  /\ IF pnext # rr
       THEN ppc' = "store" /\ nextId' = nextId
       ELSE ppc' = "idle" /\ nextId' = nextId + 1
  /\ UNCHANGED <<pageVars, rb, rw, rr, ringOp, deqRet, pnext, cpc, cval,
                 accepted, returned, unitVars, apuVars, extVars>>

ProdStore_PublishFirst ==
  /\ ppc = "store"
  /\ rw' = pnext
  /\ ppc' = "publish"
  /\ UNCHANGED <<pageVars, rb, rr, ringOp, deqRet, nextId, pnext, cpc, cval,
                 accepted, returned, unitVars, apuVars, extVars>>

\* _pushSample: this.rb[this.rw] = s
ProdStore ==
  /\ ppc = "store"
  /\ rb' = [rb EXCEPT ![rw] = nextId]
  /\ ppc' = "publish"
  /\ UNCHANGED <<pageVars, rw, rr, ringOp, deqRet, nextId, pnext, cpc, cval,
                 accepted, returned, unitVars, apuVars, extVars>>

\* _pushSample: this.rw = next
ProdPublish ==
  /\ ppc = "publish"
  /\ rw' = pnext
  /\ accepted' = Append(accepted, nextId)
  /\ nextId' = nextId + 1
  /\ ppc' = "idle"
  /\ UNCHANGED <<pageVars, rb, rr, ringOp, deqRet, pnext, cpc, cval, returned, unitVars, apuVars, extVars>>

\* _deq: if (this.rr === this.rw) return 0
ConsCheck ==
  /\ cpc = "idle"
  /\ IF rr = rw THEN cpc' = "idle" /\ deqRet' = 0
                ELSE cpc' = "load" /\ deqRet' = deqRet
  /\ UNCHANGED <<pageVars, rb, rw, rr, ringOp, nextId, ppc, pnext, cval,
                 accepted, returned, unitVars, apuVars, extVars>>

\* _deq: const s = this.rb[this.rr]
ConsLoad ==
  /\ cpc = "load"
  /\ cval' = rb[rr]
  /\ cpc' = "advance"
  /\ UNCHANGED <<pageVars, rb, rw, rr, ringOp, deqRet, nextId, ppc, pnext,
                 accepted, returned, unitVars, apuVars, extVars>>

\* _deq: this.rr = (this.rr + 1) % this.rb.length; return s
ConsAdvance ==
  /\ cpc = "advance"
  /\ rr' = (rr + 1) % RbLen
  /\ deqRet' = cval
  /\ returned' = Append(returned, cval)
  /\ cpc' = "idle"
  /\ UNCHANGED <<pageVars, rb, rw, ringOp, nextId, ppc, pnext, cval, accepted, unitVars, apuVars, extVars>>

SpecRingConc ==
  Init /\ [][\/ ProdReadRw \/ ProdReadRr \/ ProdStore \/ ProdPublish
            \/ ConsCheck \/ ConsLoad \/ ConsAdvance]_vars

(* ===== Frame sequencer ===== *)
\* write($4017, v)
SeqWrite4017 ==
  \E v \in {\h00, \h40, \h80, \hC0} :
    LET w == ApuWrite([Fresh(machine) EXCEPT !.ticks = <<>>], \h4017, v)
    IN  /\ machine' = w
        /\ busOp' = [op |-> "write", addr |-> \h4017, v |-> v, ret |-> 0]
        /\ seqStart' = SeqStartOf(w)
        /\ wraps' = 0
        /\ UNCHANGED <<pageVars, dma, play, tally, unitVars, ringVars, extVars>>

\* read($4015)
SeqRead4015 ==
  LET r == ApuRead(Fresh(machine), \h4015)
  IN  /\ machine' = r.m
      /\ busOp' = [op |-> "none", addr |-> 0, v |-> 0, ret |-> 0]
      /\ seqStart' = IF machine.wrapped THEN SeqStartOf(machine) ELSE seqStart
      /\ UNCHANGED <<pageVars, wraps, dma, play, tally, unitVars, ringVars, extVars>>

\* step(n) is n times step(1).  Calls of one cycle are made within
\* FineCycles cycles of a whole number of quarter periods of sequencer time,
\* which is where the boundaries fall, and calls of LongStep cycles lead
\* from one such stretch to the next.
SeqStepCycles ==
  LET off == machine.apu.seqTime % (LongStep * FRAME_HZ)
  IN  (IF off < FineCycles * FRAME_HZ THEN {1} ELSE {})
      \cup (IF off <= FineCycles * FRAME_HZ THEN {LongStep} ELSE {})

\* step(cycles)
SeqStep ==
  \E cycles \in SeqStepCycles :
    /\ wraps < MaxWraps
    /\ LET n == SeqCycles(Fresh(machine), cycles)
       IN  /\ machine' = n
           /\ wraps' = IF n.wrapped THEN wraps + 1 ELSE wraps
    /\ busOp' = [op |-> "none", addr |-> 0, v |-> 0, ret |-> 0]
    /\ seqStart' = IF machine.wrapped THEN SeqStartOf(machine) ELSE seqStart
    /\ UNCHANGED <<pageVars, dma, play, tally, unitVars, ringVars, extVars>>

SpecSeq == Init /\ [][SeqWrite4017 \/ SeqRead4015 \/ SeqStep]_vars

\* The machine once the program has set the DMC registers up: rate index
\* 15, sample address $FFC0, sample length 16 * l + 1 = 1 or 65, the latter
\* running past $FFFF.
InitDmc ==
  /\ InitUnits /\ InitRing /\ InitExt
  /\ machine \in { ApuWrite(ApuWrite(ApuWrite(MachineNew, \h4010, \h0F),
                                     \h4012, \hFF), \h4013, l) :
                    l \in {\h00, \h04} }
  /\ busOp = [op |-> "none", addr |-> 0, v |-> 0, ret |-> 0]
  /\ seqStart = SeqStartOf(MachineNew)
  /\ wraps = 0
  /\ dma = [reads |-> <<>>, stall |-> 0]
  /\ play = NoPlay
  /\ tally = [cycles |-> 0, boundaries |-> 0, tickWrites |-> 0]

\* write($4010, v): rate index 15 with every combination of the IRQ-enable
\* (bit 7) and loop (bit 6) bits
DmcWrite4010 ==
  \E v \in {\h0F, \h4F, \h8F, \hCF} :
    /\ LET n == ApuWrite(machine, \h4010, v)
       IN  /\ machine' = n
           /\ play' = PlayAfterWrite(play, machine.dmc, n.dmc)
    /\ dma' = [reads |-> <<>>, stall |-> 0]
    /\ UNCHANGED <<pageVars, busOp, seqStart, wraps, tally, unitVars, ringVars, extVars>>

\* write($4015, v): start or stop the DMC
DmcWrite4015 ==
  \E v \in {\h00, \h10} :
    /\ LET n == ApuWrite(machine, \h4015, v)
       IN  /\ machine' = n
           /\ play' = PlayAfterWrite(play, machine.dmc, n.dmc)
    /\ dma' = [reads |-> <<>>, stall |-> 0]
    /\ UNCHANGED <<pageVars, busOp, seqStart, wraps, tally, unitVars, ringVars, extVars>>

\* read($4015)
DmcRead4015 ==
  /\ machine' = ApuRead(machine, \h4015).m
  /\ dma' = [reads |-> <<>>, stall |-> 0]
  /\ UNCHANGED <<pageVars, play, busOp, seqStart, wraps, tally, unitVars, ringVars, extVars>>

\* step(n) is n times step(1).  Calls of one cycle are made within
\* FineCycles cycles of a timer reload, and a call of timerCnt + 1 cycles
\* runs the timer down to just past its next reload.
DmcStep ==
  \E cycles \in (IF machine.dmc.timerCnt + FineCycles > machine.dmc.timer
                   THEN {1} ELSE {}) \cup {machine.dmc.timerCnt + 1},
     data \in {\hAA} :
    LET x == DmcCycles(DmcCall(machine.dmc), cycles, data)
    IN  /\ machine' = [machine EXCEPT !.dmc = x.d]
        /\ dma' = [reads |-> x.reads, stall |-> x.stall]
        /\ play' = IF play.active
                     THEN [play EXCEPT !.n = @ + Len(x.reads)] ELSE play
        /\ UNCHANGED <<pageVars, busOp, seqStart, wraps, tally, unitVars, ringVars, extVars>>

SpecDmc == InitDmc /\ [][DmcWrite4010 \/ DmcWrite4015 \/ DmcRead4015 \/ DmcStep]_vars

(* ===== Status register ===== *)
\* The machine as constructed, or one frame (four quarter periods, rounded
\* up) after $4017 was written with v: the 4-step sequence has wrapped once,
\* raising frameIRQ unless v inhibits it.
InitRead ==
  /\ InitUnits /\ InitRing /\ InitExt
  /\ machine \in {MachineNew} \cup
        { Fresh(ApuCycles(ApuWrite(MachineNew, \h4017, v),
                          4 * (LongStep + 1), 0)) : v \in {\h00, \h40} }
  /\ busOp = [op |-> "none", addr |-> 0, v |-> 0, ret |-> 0]
  /\ seqStart = SeqStartOf(MachineNew)
  /\ wraps = 0
  /\ dma = [reads |-> <<>>, stall |-> 0]
  /\ play = NoPlay
  /\ tally = [cycles |-> 0, boundaries |-> 0, tickWrites |-> 0]

\* write(addr, v): all channels off / on, a length load for each of the
\* four channels (table index 1, and index 3 for two of them), DMC IRQ
\* on / off
RdWrite ==
  \E w \in { <<\h4015, \h00>>, <<\h4015, \h1F>>,
             <<\h4003, \h08>>, <<\h4007, \h08>>,
             <<\h400B, \h08>>, <<\h400F, \h08>>,
             <<\h4003, \h18>>, <<\h400B, \h18>>,
             <<\h4010, \h80>>, <<\h4010, \h00>> } :
    /\ machine' = ApuWrite(machine, w[1], w[2])
    /\ busOp' = [op |-> "write", addr |-> w[1], v |-> w[2], ret |-> 0]
    /\ UNCHANGED <<pageVars, seqStart, wraps, dma, play, tally, unitVars, ringVars, extVars>>

\* read(addr)
RdRead ==
  \E addr \in {\h4015, \h4017} :
    LET r == ApuRead(machine, addr)
    IN  /\ machine' = r.m
        /\ busOp' = [op |-> "read", addr |-> addr, v |-> 0, ret |-> r.ret]
        /\ UNCHANGED <<pageVars, seqStart, wraps, dma, play, tally, unitVars, ringVars, extVars>>

\* step(1), within FineCycles cycles of the start of a sequence
RdStep ==
  /\ machine.apu.seqTime < FineCycles * FRAME_HZ
  /\ \E data \in {\hAA} :
       machine' = Fresh(ApuCycles(machine, 1, data))
  /\ busOp' = [op |-> "none", addr |-> 0, v |-> 0, ret |-> 0]
  /\ UNCHANGED <<pageVars, seqStart, wraps, dma, play, tally, unitVars, ringVars, extVars>>

SpecRead == InitRead /\ [][RdWrite \/ RdRead \/ RdStep]_vars

(* ===== Pulse channel as a unit ===== *)
\* bytes written to the pulse registers 0..3: duty 3 at constant volume 15
\* with halt set; sweep off, adding and negating at shift 1, and adding
\* with period 1; timer low; length index 1 with timer high 0 and 7
\* A sounding pulse channel of either kind: enabled, then written $FF to
\* register 0 and $08 to register 3 (length 254, timer 0).
InitPulse ==
  /\ InitUnits /\ InitRing /\ InitApu /\ InitNzMixPpu /\ InitPage
  /\ pu \in { PulseWrite3(PulseWrite0(PulseSetEnabled(PulseNew(isPulse1),
                                                      TRUE), \hFF), \h08) :
                isPulse1 \in BOOLEAN }
  /\ puOp = [op |-> "new", timer |-> 0, counter |-> 0]

\* write0(n) .. write3(n)
PlWrite ==
  \E w \in { <<0, \hFF>>,
             <<1, \h00>>, <<1, \h81>>, <<1, \h89>>, <<1, \h91>>,
             <<2, \h08>>, <<2, \hFF>>,
             <<3, \h08>>, <<3, \h0F>> } :
    /\ pu' = CASE w[1] = 0 -> PulseWrite0(pu, w[2])
               [] w[1] = 1 -> PulseWrite1(pu, w[2])
               [] w[1] = 2 -> PulseWrite2(pu, w[2])
               [] w[1] = 3 -> PulseWrite3(pu, w[2])
    /\ puOp' = [op |-> "write", timer |-> pu.timer, counter |-> pu.sweep.counter]
    /\ UNCHANGED <<pageVars, nz, nzOp, mix, ppu, ppuOp, ppuCnt, unitVars, ringVars, apuVars>>

\* half(): the half-frame tick
PlHalf ==
  /\ pu' = PulseHalf(pu)
  /\ puOp' = [op |-> "half", timer |-> pu.timer, counter |-> pu.sweep.counter]
  /\ UNCHANGED <<pageVars, nz, nzOp, mix, ppu, ppuOp, ppuCnt, unitVars, ringVars, apuVars>>

SpecPulse == InitPulse /\ [][PlWrite \/ PlHalf]_vars

(* ===== Pulse 1 length counter under step ===== *)
\* The machine once the program has set pulse 1 sounding: mode and IRQ
\* inhibit written to $4017, the channel enabled, duty 3 at constant volume
\* 15 with halt clear, timer $0FF, length index 3 (two half-frame ticks).
InitRun ==
  /\ InitUnits /\ InitRing /\ InitExt
  /\ machine \in
       { [ApuWrite(ApuWrite(ApuWrite(ApuWrite(ApuWrite(MachineNew,
            \h4017, v), \h4015, \h01), \h4000, \hDF), \h4002, \hFF),
            \h4003, \h18) EXCEPT !.ticks = <<>>] : v \in {\h40, \hC0} }
  /\ busOp = [op |-> "none", addr |-> 0, v |-> 0, ret |-> 0]
  /\ seqStart = SeqStartOf(MachineNew)
  /\ wraps = 0
  /\ dma = [reads |-> <<>>, stall |-> 0]
  /\ play = NoPlay
  /\ tally = [cycles |-> 0, boundaries |-> 0, tickWrites |-> 0]

RECURSIVE RunCycles(_, _)
\* step(cycles) as far as pulse 1 and the frame sequencer go, each iteration
\* this.pulse1.clock() and then the sequencer part; the first half of the
\* iterations is evaluated before the second is begun
RunCycles(m, cycles) ==
  IF cycles = 0 THEN m
  ELSE IF cycles = 1
    THEN SeqCycle([m EXCEPT !.apu.pulse1 = PulseClock(@)])
  ELSE CHOOSE r \in { RunCycles(h, cycles - (cycles \div 2)) :
                        h \in {RunCycles(m, cycles \div 2)} } : TRUE

\* write($4003, $18), made once the length counter of pulse 1 is 0
RunWrite ==
  /\ machine.apu.pulse1.len.value = 0
  /\ machine' = ApuWrite([Fresh(machine) EXCEPT !.ticks = <<>>], \h4003, \h18)
  /\ busOp' = [op |-> "write", addr |-> \h4003, v |-> \h18, ret |-> 0]
  /\ UNCHANGED <<pageVars, seqStart, wraps, dma, play, tally, unitVars, ringVars, extVars>>

\* step(cycles), of the sizes SeqStepCycles gives, until the sequence has
\* wrapped MaxWraps + 1 times
RunStep ==
  \E cycles \in SeqStepCycles :
    /\ wraps < MaxWraps + 1
    /\ LET n == RunCycles(Fresh(machine), cycles)
       IN  /\ machine' = n
           /\ wraps' = IF n.wrapped THEN wraps + 1 ELSE wraps
    /\ busOp' = [op |-> "none", addr |-> 0, v |-> 0, ret |-> 0]
    /\ UNCHANGED <<pageVars, seqStart, dma, play, tally, unitVars, ringVars, extVars>>

\* the processor keeps calling step
SpecRun == InitRun /\ [][RunWrite \/ RunStep]_vars /\ WF_vars(RunStep)

(* ===== The noise channel on its own: $400E writes and clock() ===== *)

\* write($400E, n): this.noise.write2(v), for mode 0 and mode 1 with period
\* index 0
NzWrite ==
  \E n \in {\h00, \h80} :
    /\ nz' = NoiseWrite2(nz, n)
    /\ nzOp' = [nzOp EXCEPT !.op = "write"]
    /\ UNCHANGED <<pageVars, unitVars, ringVars, apuVars, pu, puOp, mix, ppu, ppuOp,
                   ppuCnt>>

\* this.noise.clock(); nzOp remembers the shift register and the mode a call
\* with timer counter 0 found, and counts the calls from that one on
NzClock ==
  /\ nz' = NoiseClock(nz)
  /\ nzOp' = IF nz.timerCnt = 0
               THEN [op |-> "clock", n |-> 1, from |-> nz.lfsr,
                     mode |-> nz.mode]
               ELSE [nzOp EXCEPT !.op = "clock", !.n = @ + 1]
  /\ UNCHANGED <<pageVars, unitVars, ringVars, apuVars, pu, puOp, mix, ppu, ppuOp,
                 ppuCnt>>

SpecNoise == Init /\ [][NzWrite \/ NzClock]_vars

(* ===== The noise shift register: $400E writes of either mode between the
   shifts ===== *)

\* write($400E, n): this.noise.write2(v), for both modes and the period
\* indices 0 and 1
LfWrite ==
  \E n \in {\h00, \h80, \h01, \h81} :
    /\ nz' = NoiseWrite2(nz, n)
    /\ nzOp' = [nzOp EXCEPT !.op = "write"]
    /\ UNCHANGED <<pageVars, unitVars, ringVars, apuVars, pu, puOp, mix, ppu, ppuOp,
                   ppuCnt>>

\* this.noise.clock(), called until the register has shifted: the calls that
\* count the timer down and the one that finds it 0.  nzOp remembers the
\* register and the mode that call found.
LfClock ==
  LET atZero == NoiseClocks(nz, nz.timerCnt)
  IN  /\ nz' = NoiseClock(atZero)
      /\ nzOp' = [op |-> "clock", n |-> 1, from |-> atZero.lfsr,
                   mode |-> atZero.mode]
      /\ UNCHANGED <<pageVars, unitVars, ringVars, apuVars, pu, puOp, mix, ppu, ppuOp,
                     ppuCnt>>

SpecLfsr == Init /\ [][LfWrite \/ LfClock]_vars

(* ===== The mixer on its own: setVolume and _mix() ===== *)

\* setVolume(v), v in tenths
MxSetVolume ==
  \E v \in {-5, 0, 5, 10, 15} :
    /\ mix' = [mix EXCEPT !.op = "setVolume", !.master = Clamp01(v)]
    /\ UNCHANGED <<pageVars, unitVars, ringVars, apuVars, pu, puOp, nz, nzOp, ppu,
                   ppuOp, ppuCnt>>

\* _mix(), called after the output of one channel has changed, to one of
\* three levels of 0..15 (0..127 for the DMC)
MxMix ==
  \E ch \in {"p1", "p2", "tri", "noi", "dmc"} :
    \E v \in IF ch = "dmc" THEN {0, 64, 127} ELSE {0, 8, 15} :
      LET o == [mix EXCEPT ![ch] = v]
      IN  /\ mix' = [o EXCEPT !.op = "mix",
                              !.ret = Mix(o.p1, o.p2, o.tri, o.noi, o.dmc,
                                          o.master)]
          /\ UNCHANGED <<pageVars, unitVars, ringVars, apuVars, pu, puOp, nz, nzOp,
                         ppu, ppuOp, ppuCnt>>

SpecMix == Init /\ [][MxSetVolume \/ MxMix]_vars

(* ===== The PPU registers: readRegister and writeRegister ===== *)

\* readRegister(addr) of $2002 or $2007
PrRead ==
  \E addr \in {\h2002, \h2007} :
    /\ ppuCnt.calls < MaxPpuCalls
    /\ LET r == PpuReadRegister(ppu, addr)
       IN  /\ ppu' = r.p
           /\ ppuOp' = [op |-> "read", addr |-> addr, v |-> 0, ret |-> r.ret,
                        rendered |-> 0]
    /\ ppuCnt' = [ppuCnt EXCEPT !.calls = @ + 1]
    /\ UNCHANGED <<pageVars, unitVars, ringVars, apuVars, pu, puOp, nz, nzOp, mix>>

\* writeRegister(addr, value) of $2003..$2007; ppuCnt counts the $2005
\* writes made since construction
PrWrite ==
  \E addr \in {\h2003, \h2004, \h2005, \h2006, \h2007} :
    \E value \in {\h00, \h23, \hFF} :
      /\ ppuCnt.calls < MaxPpuCalls
      /\ ppu' = PpuWriteRegister(ppu, addr, value)
      /\ ppuOp' = [op |-> "write", addr |-> addr, v |-> value, ret |-> 0,
                   rendered |-> 0]
      /\ ppuCnt' = [ppuCnt EXCEPT
                      !.calls = @ + 1,
                      !.scrollWrites = IF addr = \h2005 THEN @ + 1 ELSE @]
      /\ UNCHANGED <<pageVars, unitVars, ringVars, apuVars, pu, puOp, nz, nzOp, mix>>

SpecPpuReg == Init /\ [][PrRead \/ PrWrite]_vars

(* ===== The renderer: renderFrame() between OAM and VRAM writes ===== *)

\* writeRegister(addr, value): $2007 gives tile 0 a row of colour index 1,
\* $2003 moves the OAM address to the x byte of sprite 0, $2004 stores a
\* sprite byte
RnWrite ==
  \E w \in { <<\h2007, \hFF>>, <<\h2003, \h03>>, <<\h2004, \h00>>,
             <<\h2004, \hE9>>, <<\h2004, \hF9>> } :
    /\ ppuCnt.calls < MaxPpuCalls
    /\ ppu' = PpuWriteRegister(ppu, w[1], w[2])
    /\ ppuOp' = [op |-> "write", addr |-> w[1], v |-> w[2], ret |-> 0,
                 rendered |-> 0]
    /\ ppuCnt' = [ppuCnt EXCEPT !.calls = @ + 1]
    /\ UNCHANGED <<pageVars, unitVars, ringVars, apuVars, pu, puOp, nz, nzOp, mix>>

\* renderFrame(): the background pass draws the pixels of RenderBackground,
\* then the sprite pass draws over them; ppuOp.drawn keeps the drawPixel
\* calls of the sprite pass
RnRender ==
  /\ ppuOp.op # "renderFrame"
  /\ ppuOp' = [op |-> "renderFrame", addr |-> 0, v |-> 0, ret |-> 0,
               rendered |-> 1, drawn |-> RenderSprites(ppu)]
  /\ UNCHANGED <<pageVars, unitVars, ringVars, apuVars, pu, puOp, nz, nzOp, mix, ppu,
                 ppuCnt>>

SpecRender == Init /\ [][RnWrite \/ RnRender]_vars

(* ===== The input settings page (inputsettings.js) ===== *)

\* a click on the remap button of a player's button: the listener of lines
\* 10-20
PgClick ==
  \E player \in {1, 2} : \E buttonName \in {"A", "B"} :
    /\ waitingForRemap' = <<player, buttonName>>
    /\ UNCHANGED <<pollRequested, pressed, remapped, unitVars, ringVars,
                   apuVars, extVars>>

\* a keydown event: the listener of lines 24-37, finishRemap() included
PgKeydown ==
  \E code \in {"KeyZ", "KeyX"} :
    /\ IF waitingForRemap # <<>>
         THEN /\ remapped' = [fn |-> "remapPlayerKey",
                              player |-> waitingForRemap[1],
                              button |-> waitingForRemap[2],
                              code |-> code, index |-> 0]
              /\ waitingForRemap' = <<>>
         ELSE UNCHANGED <<remapped, waitingForRemap>>
    /\ UNCHANGED <<pollRequested, pressed, unitVars, ringVars, apuVars,
                   extVars>>

\* the player presses or releases button i of the gamepad
PgButton ==
  \E i \in {0, 1} :
    /\ pressed' = IF i \in pressed THEN pressed \ {i} ELSE pressed \cup {i}
    /\ UNCHANGED <<waitingForRemap, pollRequested, remapped, unitVars,
                   ringVars, apuVars, extVars>>

\* the browser runs the requested pollGamepads() call: with a remap awaited
\* and a button pressed it remaps the first pressed button, calls
\* finishRemap() and returns; otherwise it requests its next call
PgPoll ==
  /\ pollRequested
  /\ IF waitingForRemap # <<>> /\ pressed # {}
       THEN /\ remapped' = [fn |-> "remapPlayerGamepad",
                            player |-> waitingForRemap[1],
                            button |-> waitingForRemap[2], code |-> "",
                            index |-> CHOOSE i \in pressed :
                                        \A j \in pressed : i <= j]
            /\ waitingForRemap' = <<>>
            /\ pollRequested' = FALSE
       ELSE /\ pollRequested' = TRUE
            /\ UNCHANGED <<remapped, waitingForRemap>>
  /\ UNCHANGED <<pressed, unitVars, ringVars, apuVars, extVars>>

\* the browser runs a requested animation frame callback in the end
SpecRemap ==
  /\ Init
  /\ [][PgClick \/ PgKeydown \/ PgButton \/ PgPoll]_vars
  /\ WF_vars(PgPoll)

(* ===== The PPU in time: step() with register accesses in between ===== *)

\* The numbers of step() calls made in a row.  Away from the lines 240, 241
\* and 261, whose ends set and clear the vblank flag, whole lines are stepped
\* through at once, up to line 239 and up to line 260; on the other lines
\* the calls are made one at a time within FineCycles of either end and in
\* one run in between.
PpuStepCalls(p) ==
  IF p.cycle = 0 /\ p.scanline < 239
    THEN {341 * (239 - p.scanline)}
  ELSE IF p.cycle = 0 /\ p.scanline \in 242..259
    THEN {341 * (260 - p.scanline)}
  ELSE (IF p.cycle < FineCycles \/ p.cycle >= 340 - FineCycles
          THEN {1} ELSE {})
       \cup (IF p.cycle < 340 - FineCycles
               THEN {340 - FineCycles - p.cycle} ELSE {})

\* step(), n times; ppuCnt.renders counts the renderFrame() calls made
\* since scanline last went back to 0
PtStep ==
  \E n \in PpuStepCalls(ppu) :
    LET x == PpuSteps([p |-> ppu, rendered |-> 0], n)
    IN  /\ ppu' = x.p
        /\ ppuOp' = [op |-> "step", addr |-> 0, v |-> 0, ret |-> 0,
                     rendered |-> x.rendered]
        /\ ppuCnt' = [ppuCnt EXCEPT
                        !.renders = IF x.p.scanline < ppu.scanline
                                      THEN 0 ELSE @ + x.rendered]
        /\ UNCHANGED <<pageVars, unitVars, ringVars, apuVars, pu, puOp, nz, nzOp, mix>>

\* readRegister(addr) of $2002 or $2007 between two step() calls, on the
\* lines stepped through call by call
PtRead ==
  \E addr \in {\h2002, \h2007} :
    /\ ppuCnt.calls < MaxPpuCalls
    /\ 341 * (239 - ppu.scanline) \notin PpuStepCalls(ppu)
    /\ 341 * (260 - ppu.scanline) \notin PpuStepCalls(ppu)
    /\ LET r == PpuReadRegister(ppu, addr)
       IN  /\ ppu' = r.p
           /\ ppuOp' = [op |-> "read", addr |-> addr, v |-> 0, ret |-> r.ret,
                        rendered |-> 0]
    /\ ppuCnt' = [ppuCnt EXCEPT !.calls = @ + 1]
    /\ UNCHANGED <<pageVars, unitVars, ringVars, apuVars, pu, puOp, nz, nzOp, mix>>

\* writeRegister($2000, $FF) between two step() calls
PtWrite ==
  /\ ppuCnt.calls < MaxPpuCalls
  /\ 341 * (239 - ppu.scanline) \notin PpuStepCalls(ppu)
  /\ 341 * (260 - ppu.scanline) \notin PpuStepCalls(ppu)
  /\ ppu' = PpuWriteRegister(ppu, \h2000, \hFF)
  /\ ppuOp' = [op |-> "write", addr |-> \h2000, v |-> \hFF, ret |-> 0,
               rendered |-> 0]
  /\ ppuCnt' = [ppuCnt EXCEPT !.calls = @ + 1]
  /\ UNCHANGED <<pageVars, unitVars, ringVars, apuVars, pu, puOp, nz, nzOp, mix>>

SpecPpuTime == Init /\ [][PtStep \/ PtRead \/ PtWrite]_vars

(* ===== The frame sequencer left to run: step() and nothing else ===== *)
\* step(cycles) from the constructed APU on, for MaxWraps + 6 wraps of the
\* sequence; tally counts the cycles stepped and the boundaries fired,
\* each boundary handing the channels one quarter-frame tick
DrStep ==
  \E cycles \in SeqStepCycles :
    /\ wraps < MaxWraps + 6
    /\ LET m == Fresh(machine)
           n == SeqCycles(m, cycles)
           Quarters(t) == Cardinality({i \in 1..Len(t) : t[i] = "quarter"})
       IN  /\ machine' = n
           /\ wraps' = IF n.wrapped THEN wraps + 1 ELSE wraps
           /\ tally' = [tally EXCEPT
                          !.cycles = @ + cycles,
                          !.boundaries = @ + Quarters(n.ticks)
                                           - Quarters(m.ticks)]
    /\ UNCHANGED <<pageVars, busOp, seqStart, dma, play, unitVars, ringVars, extVars>>

SpecDrift == Init /\ [][DrStep]_vars

(* ===== The DMC output level: $4011 writes and output bits ===== *)
\* the DMC set up with the one-byte sample
InitDac == InitDmc /\ machine.dmc.sampleLen0 = 1

\* write(addr, v): loop on, the output level set next to either end of its
\* range, the DMC started
DcWrite ==
  \E w \in { <<\h4010, \h4F>>, <<\h4011, \h7D>>, <<\h4011, \h02>>,
             <<\h4015, \h10>> } :
    /\ machine' = ApuWrite(machine, w[1], w[2])
    /\ busOp' = [op |-> "write", addr |-> w[1], v |-> w[2], ret |-> 0]
    /\ dma' = [reads |-> <<>>, stall |-> 0]
    /\ UNCHANGED <<pageVars, seqStart, wraps, play, tally, unitVars, ringVars, extVars>>

\* step(timerCnt + 1), as far as the DMC goes: the timer runs out once,
\* which puts out one bit or takes the next byte; cpuRead returns a byte
\* of eight like bits
DcStep ==
  \E data \in {\h00, \hFF} :
    LET x == DmcCycles(DmcCall(machine.dmc), machine.dmc.timerCnt + 1, data)
    IN  /\ machine' = [machine EXCEPT !.dmc = x.d]
        /\ busOp' = [op |-> "none", addr |-> 0, v |-> 0, ret |-> 0]
        /\ dma' = [reads |-> x.reads, stall |-> x.stall]
        /\ UNCHANGED <<pageVars, seqStart, wraps, play, tally, unitVars, ringVars,
                       extVars>>

SpecDac == InitDac /\ [][DcWrite \/ DcStep]_vars

(* ===== The IRQ flags: DMC and frame sequencer together ===== *)
\* write(addr, v) and read($4015): the DMC started and stopped, its IRQ and
\* loop bits, the frame IRQ inhibited and allowed
IqBus ==
  \/ \E w \in { <<\h4015, \h10>>, <<\h4015, \h00>>,
                 <<\h4010, \h80>>, <<\h4010, \h00>>, <<\h4010, \hC0>>,
                 <<\h4017, \h40>>, <<\h4017, \h00>> } :
       /\ machine' = ApuWrite(Fresh(machine), w[1], w[2])
       /\ busOp' = [op |-> "write", addr |-> w[1], v |-> w[2], ret |-> 0]
       /\ UNCHANGED <<pageVars, seqStart, wraps, dma, play, tally, unitVars, ringVars,
                      extVars>>
  \/ LET r == ApuRead(Fresh(machine), \h4015)
     IN  /\ machine' = r.m
         /\ busOp' = [op |-> "read", addr |-> \h4015, v |-> 0, ret |-> r.ret]
         /\ UNCHANGED <<pageVars, seqStart, wraps, dma, play, tally, unitVars, ringVars,
                        extVars>>

\* step(1), FineCycles times at most: the DMC fetches on the first clock
\* after it is started
IqStep ==
  /\ tally.cycles < FineCycles
  /\ machine' = ApuCycles(Fresh(machine), 1, \hAA)
  /\ busOp' = [op |-> "none", addr |-> 0, v |-> 0, ret |-> 0]
  /\ tally' = [tally EXCEPT !.cycles = @ + 1]
  /\ UNCHANGED <<pageVars, seqStart, wraps, dma, play, unitVars, ringVars, extVars>>

SpecIrq == InitRead /\ [][IqBus \/ IqStep]_vars

(* ===== The register maps: APU and PPU accesses at any address ===== *)
\* APU.write(addr, v) and APU.read(addr), at addresses with a register
\* behind them and at addresses without one
BusApu ==
  \/ \E w \in { <<\h4015, \h0F>>, <<\h4003, \h18>>,
                 <<\h4009, \hFF>>, <<\h400D, \hFF>>, <<\h4014, \hFF>>,
                 <<\h4016, \hFF>>, <<\h4018, \hFF>> } :
       /\ machine' = ApuWrite(machine, w[1], w[2])
       /\ busOp' = [op |-> "write", addr |-> w[1], v |-> w[2], ret |-> 0]
       /\ UNCHANGED <<pageVars, seqStart, wraps, dma, play, tally, unitVars, ringVars, extVars>>
  \/ \E addr \in {\h4015, \h4000, \h4017} :
       LET r == ApuRead(machine, addr)
       IN  /\ machine' = r.m
           /\ busOp' = [op |-> "read", addr |-> addr, v |-> 0, ret |-> r.ret]
           /\ UNCHANGED <<pageVars, seqStart, wraps, dma, play, tally, unitVars, ringVars,
                          extVars>>

\* PPU.writeRegister(addr, value) and PPU.readRegister(addr), likewise
BusPpu ==
  /\ ppuCnt.calls < MaxPpuCalls
  /\ ppuCnt' = [ppuCnt EXCEPT !.calls = @ + 1]
  /\ \/ \E w \in { <<\h2006, \h23>>, <<\h2002, \hFF>>, <<\h4014, \hFF>> } :
          /\ ppu' = PpuWriteRegister(ppu, w[1], w[2])
          /\ ppuOp' = [op |-> "write", addr |-> w[1], v |-> w[2], ret |-> 0,
                       rendered |-> 0]
     \/ \E addr \in {\h2007, \h2000, \h2008} :
          LET r == PpuReadRegister(ppu, addr)
          IN  /\ ppu' = r.p
              /\ ppuOp' = [op |-> "read", addr |-> addr, v |-> 0,
                           ret |-> r.ret, rendered |-> 0]
  /\ UNCHANGED <<pageVars, unitVars, ringVars, apuVars, pu, puOp, nz, nzOp, mix>>

SpecBus == InitRead /\ [][BusApu \/ BusPpu]_vars

(* ===== The channel registers: writes, with $4017 delivering the ticks ===== *)
\* The machine after new APU(), step(1) and the writes that set pulse 1 to
\* duty 3 with period 8 and the triangle to period 2.  The step has clocked
\* every channel once (triangle.clock() with timer 0 and length 0 changes
\* nothing), so that bit 0 of the noise shift register is clear.  Pulse 1
\* and the noise channel put out their decay level.
InitRegs ==
  /\ InitUnits /\ InitRing /\ InitExt
  /\ machine =
       LET m == [ApuCycles(MachineNew, 1, 0) EXCEPT
                   !.apu.pulse1 = PulseClock(@),
                   !.apu.pulse2 = PulseClock(@),
                   !.apu.noise = NoiseClock(@)]
       IN  ApuWrite(ApuWrite(ApuWrite(m, \h4000, \hC0), \h4002, \h08),
                    \h400A, \h02)
  /\ busOp = [op |-> "none", addr |-> 0, v |-> 0, ret |-> 0]
  /\ seqStart = SeqStartOf(MachineNew)
  /\ wraps = 0
  /\ dma = [reads |-> <<>>, stall |-> 0]
  /\ play = NoPlay
  /\ tally = [cycles |-> 0, boundaries |-> 0, tickWrites |-> 0]

\* write(addr, v): channels off / on, the 5-step $4017 write that ticks
\* every channel at once (MaxTickWrites of them at most), the triangle's
\* linear counter (reload value 2, control clear / set) and the length
\* loads of the triangle, pulse 1 and the noise channel.  machine.ticks
\* holds the ticks of the write.
RgWrite ==
  \E w \in { <<\h4015, \h00>>, <<\h4015, \h1F>>, <<\h4017, \h80>>,
             <<\h4008, \h02>>, <<\h4008, \h82>>, <<\h400B, \h18>>,
             <<\h4003, \h18>>, <<\h400F, \h18>> } :
    /\ w[1] = \h4017 => tally.tickWrites < MaxTickWrites
    /\ machine' = ApuWrite([machine EXCEPT !.ticks = <<>>], w[1], w[2])
    /\ busOp' = [op |-> "write", addr |-> w[1], v |-> w[2], ret |-> 0]
    /\ tally' = [tally EXCEPT !.tickWrites = IF w[1] = \h4017 THEN @ + 1 ELSE @]
    /\ UNCHANGED <<pageVars, seqStart, wraps, dma, play, unitVars, ringVars, extVars>>

SpecRegs == InitRegs /\ [][RgWrite]_vars

(* ===== Claims ===== *)

\* C9: load(i) sets value to entry i of the length table for every i in
\* 0..31; with halt clear each half() lowers value by exactly 1 until it is
\* 0 and then leaves it at 0; with halt set half() leaves value unchanged;
\* value is never negative.
C9_LengthLoadHalf ==
  [][ /\ (lcOp'.op = "load" => lc'.value = LENGTH_TABLE[lcOp'.arg + 1])
      /\ (lcOp'.op = "half" /\ ~lc.halt /\ lc.value > 0
            => lc'.value = lc.value - 1)
      /\ (lcOp'.op = "half" /\ ~lc.halt /\ lc.value = 0 => lc'.value = 0)
      /\ (lcOp'.op = "half" /\ lc.halt => lc'.value = lc.value)
      /\ lc'.value >= 0 ]_vars

\* C9 witness: a half() call with halt set has just left a loaded 254 alone.
C9_Witness == lcOp.op = "half" /\ lc.halt /\ lc.value = 254

\* C10: out(), the decay level and the divider all stay within 0..15.
C10_EnvelopeRange ==
  /\ EnvOut(ev) \in 0..15
  /\ ev.decay \in 0..15
  /\ ev.divider \in 0..15

\* C10 witness: the envelope has decayed from 15 to 0 with the divider
\* reloaded from the largest volume.
C10_Witness ==
  ev.decay = 0 /\ ev.divider = 15 /\ ~ev.start /\ ~ev.constantVolume /\ ~ev.loop

\* C7: a push never overwrites a slot holding an unread sample; a push that
\* would make the write index collide with the read index leaves the buffer
\* and both indices unchanged; _deq on an empty buffer returns 0 and moves
\* neither index.
C7_RingNoOverwrite ==
  [][ /\ (ringOp' = "push"
            => /\ \A k \in Unread(rr, rw) : rb'[k] = rb[k]
               /\ rr' = rr
               /\ ((rw + 1) % RbLen = rr => rb' = rb /\ rw' = rw))
      /\ (ringOp' = "deq" /\ rr = rw
            => deqRet' = 0 /\ rr' = rr /\ rw' = rw /\ rb' = rb) ]_vars

\* C7 witness: a push has just been dropped on a full buffer whose oldest
\* unread sample is still the first one accepted.
C7_Witness ==
  /\ ringOp = "push"
  /\ (rw + 1) % RbLen = rr
  /\ Len(accepted) < nextId - 1
  /\ rb[rr] = 1

\* C8: under every interleaving of the producer's and the consumer's single
\* reads and writes, the samples handed out are exactly the first samples
\* accepted, in order and once each; only the producer writes rw and only
\* the consumer writes rr.
C8_RingSpsc ==
  [][ /\ Len(returned') <= Len(accepted')
      /\ returned' = SubSeq(accepted', 1, Len(returned'))
      /\ (rw' # rw => ppc = "publish")
      /\ (rr' # rr => cpc = "advance") ]_vars

\* C8 witness: every offered sample was accepted and handed out, the indices
\* having wrapped around the buffer on the way.
C8_Witness ==
  /\ Len(returned) = MaxSamples
  /\ returned = accepted

\* C1: in 4-step mode, a sequence begun at phase 0 and seqTime 0 has, at its
\* wrap, handed the channels quarter, quarter+half, quarter, quarter+half
\* and nothing else, and frameIRQ is then true iff irqInhibit is false.
C1_FourStepSequence ==
  ( /\ machine.wrapped
    /\ seqStart.phase = 0 /\ seqStart.seqTime = 0 /\ ~seqStart.mode5 )
  => /\ machine.ticks = <<"quarter", "quarter", "half",
                          "quarter", "quarter", "half">>
     /\ (machine.apu.frameIRQ <=> ~machine.apu.irqInhibit)

\* C1 witness: such a sequence has just wrapped with the IRQ not inhibited.
C1_Witness ==
  /\ machine.wrapped
  /\ seqStart.phase = 0 /\ seqStart.seqTime = 0 /\ ~seqStart.mode5
  /\ ~machine.apu.irqInhibit
  /\ machine.apu.frameIRQ

\* C2: right after a write to $4017 the sequencer is at the start of the
\* sequence, seqTime 0 and phase 0.
C2_WriteResetsSequence ==
  (busOp.op = "write" /\ busOp.addr = \h4017)
    => machine.apu.seqTime = 0 /\ machine.apu.phase = 0

\* C3: after every APU operation the level last handed to onIRQ equals
\* (dmc.irq OR frameIRQ).
C3_IrqLineTracksFlags ==
  machine.irqLine # "none"
    => ((machine.irqLine = "high") <=> (machine.dmc.irq \/ machine.apu.frameIRQ))

\* C4: a sample of L bytes started with loop clear is fetched by exactly L
\* cpuRead calls, at consecutive addresses from its start address modulo
\* 2^16, by the time bytesRemaining is 0; no cpuRead is made while
\* bytesRemaining is 0.
C4_DmcReadsExactlyL ==
  [][ /\ (play'.active => play'.n + machine'.dmc.bytesRemaining = play'.len)
      /\ (play.active =>
            \A i \in 1..Len(dma'.reads) :
              dma'.reads[i] = (play.addr + play.n + i - 1) % 65536)
      /\ (dma'.reads # <<>> => machine.dmc.bytesRemaining > 0)
      /\ (~machine.dmc.loop =>
            Len(dma'.reads) <= machine.dmc.bytesRemaining) ]_vars

\* C4 witness: a 65-byte sample started at $FFC0 has just had its last byte
\* fetched, from address $0000.
C4_Witness ==
  /\ play.active /\ play.addr = \hFFC0 /\ play.len = 65 /\ play.n = 65
  /\ machine.dmc.bytesRemaining = 0
  /\ dma.reads = <<0>>

\* C5: the DMC IRQ flag is false while bytes remain; it is raised by a call
\* exactly when a refill of that call takes bytesRemaining to 0 with loop
\* clear and irqEnable set; once raised it stays raised across step calls
\* and is lowered only by a read of $4015, by disabling the DMC through
\* $4015 (enabled becomes false) or by a $4010 write with bit 7 clear
\* (irqEnable becomes false); read($4015) with the flag raised returns bit 7
\* set and leaves the flag false.
C5_DmcIrqSticky ==
  [][ LET d == machine.dmc
          e == machine'.dmc
          r == ApuRead(machine', \h4015)
      IN  /\ (e.irq => e.bytesRemaining = 0 /\ e.enabled /\ e.irqEnable)
          /\ (~d.irq /\ e.irq
                => /\ dma'.reads # <<>>
                   /\ d.bytesRemaining > 0
                   /\ ~d.loop /\ d.irqEnable)
          /\ (dma'.reads # <<>> /\ e.bytesRemaining = 0 /\ ~d.loop /\ d.irqEnable
                => e.irq)
          /\ (d.irq /\ e.timerCnt # d.timerCnt => e.irq)
          /\ (d.irq /\ ~e.irq
                => \/ machine' = ApuRead(machine, \h4015).m
                   \/ ~e.enabled
                   \/ ~e.irqEnable)
          /\ (e.irq => BitSet(r.ret, 7) /\ ~r.m.dmc.irq) ]_vars

\* C5 witness: the 65-byte sample has been played out to its last bit and
\* the flag raised at its last fetch is still standing.
C5_Witness ==
  /\ machine.dmc.irq
  /\ play.active /\ play.len = 65 /\ play.n = 65
  /\ machine.dmc.sampleBufferEmpty /\ machine.dmc.bitsRemaining = 0
  /\ dma.reads = <<>>

\* C6: read($4015) returns a byte whose bits 0..3 tell which of the length
\* counters of pulse1, pulse2, triangle and noise are nonzero, bit 4 whether
\* dmc.bytesRemaining > 0, bit 6 frameIRQ and bit 7 dmc.irq, bit 5 being 0,
\* all as they were before the call; after the call frameIRQ and dmc.irq are
\* false and nothing else of the APU or its DMC has changed.
C6_StatusRead ==
  [][ busOp'.op = "read" /\ busOp'.addr = \h4015
        => /\ busOp'.ret \in 0..255
           /\ (BitSet(busOp'.ret, 0) <=> machine.apu.pulse1.len.value # 0)
           /\ (BitSet(busOp'.ret, 1) <=> machine.apu.pulse2.len.value # 0)
           /\ (BitSet(busOp'.ret, 2) <=> machine.apu.triangle.len.value # 0)
           /\ (BitSet(busOp'.ret, 3) <=> machine.apu.noise.len.value # 0)
           /\ (BitSet(busOp'.ret, 4) <=> machine.dmc.bytesRemaining > 0)
           /\ ~BitSet(busOp'.ret, 5)
           /\ (BitSet(busOp'.ret, 6) <=> machine.apu.frameIRQ)
           /\ (BitSet(busOp'.ret, 7) <=> machine.dmc.irq)
           /\ machine'.apu = [machine.apu EXCEPT !.frameIRQ = FALSE]
           /\ machine'.dmc = [machine.dmc EXCEPT !.irq = FALSE] ]_vars

\* C6 witness: a read has just returned $CF, all four length counters
\* nonzero and both IRQ flags set, and has left both flags clear.
C6_Witness ==
  /\ busOp.op = "read" /\ busOp.addr = \h4015 /\ busOp.ret = \hCF
  /\ ~machine.apu.frameIRQ /\ ~machine.dmc.irq
  /\ machine.apu.noise.len.value # 0

\* C11: under pulse register writes and half-frame ticks the pulse timer
\* stays within 0..$7FF; a half-frame tick stores nothing but the sweep
\* target, and only one within 0..$7FF; it leaves the timer alone when the
\* target is $800 or more or the timer is below 8; out() is 0 whenever the
\* timer is below 8.
C11_PulseTimerRange ==
  [][ LET t == SweepTarget(pu.sweep, pu.timer)
      IN  /\ pu'.timer \in 0..2047
          /\ (puOp'.op = "half" /\ (t >= 2048 \/ pu.timer < 8)
                => pu'.timer = pu.timer)
          /\ (puOp'.op = "half" /\ pu'.timer # pu.timer
                => pu'.timer = t /\ t \in 0..2047)
          /\ (pu'.timer < 8 => PulseOut(pu') = 0) ]_vars

\* C11 witness: a half-frame tick whose divider was 0 has just left the
\* timer alone because the target of the enabled sweep is $800 or more.
C11_Witness ==
  /\ puOp.op = "half" /\ puOp.counter = 0
  /\ pu.sweep.enabled /\ pu.sweep.shift # 0 /\ ~pu.sweep.negate
  /\ puOp.timer >= 8 /\ pu.timer = puOp.timer
  /\ SweepTarget(pu.sweep, pu.timer) >= 2048

\* C12: once pulse 1 is enabled with a nonzero length counter and halt
\* clear, and no register is written, step calls bring the length counter
\* to 0; while it is 0 out() is 0; and it leaves 0 only by a write to the
\* high timer byte $4003.
C12_PulseLengthRunsOut ==
  /\ ( ( /\ machine.apu.pulse1.enabled
         /\ machine.apu.pulse1.len.value > 0
         /\ ~machine.apu.pulse1.len.halt
         /\ wraps = 0 )
       ~> machine.apu.pulse1.len.value = 0 )
  /\ [](machine.apu.pulse1.len.value = 0 => PulseOut(machine.apu.pulse1) = 0)
  /\ [][ machine.apu.pulse1.len.value = 0 /\ machine'.apu.pulse1.len.value # 0
           => busOp'.op = "write" /\ busOp'.addr = \h4003 ]_vars

\* C12 witness: a half-frame tick of a step call has just brought the length
\* counter of the enabled pulse 1 to 0 while its timer, duty step and
\* envelope would let it sound.
C12_Witness ==
  /\ busOp.op = "none"
  /\ machine.apu.pulse1.enabled
  /\ ~machine.apu.pulse1.len.halt
  /\ machine.apu.pulse1.len.value = 0
  /\ machine.apu.pulse1.timer >= 8
  /\ EnvOut(machine.apu.pulse1.env) = 15
  /\ DUTY[machine.apu.pulse1.duty + 1][machine.apu.pulse1.dutyStep + 1] = 1
  /\ Len(machine.ticks) > 0 /\ machine.ticks[Len(machine.ticks)] = "half"

\* C13: a clock() call that finds the timer counter 0 with mode 0 shifts the
\* register once, to (v >> 1) | ((bit0(v) XOR bit1(v)) << 14), and with the
\* period of index 0 loaded the register stays at that value through the
\* fourth call: four calls from the reset state shift exactly once.
C13_NoiseShiftsOnce ==
  nzOp.op = "clock" /\ nzOp.mode = 0 /\ nzOp.n \in 1..4
    => nz.lfsr = (nzOp.from \div 2)
                   + (((nzOp.from % 2) + ((nzOp.from \div 2) % 2)) % 2) * 16384

\* C13 witness: the fourth call after a mode-0 shift whose feedback bit was 1
\* and whose tap at bit 6 differed from bit 1.
C13_Witness ==
  /\ nzOp.op = "clock" /\ nzOp.mode = 0 /\ nzOp.n = 4
  /\ nzOp.from % 2 # (nzOp.from \div 2) % 2
  /\ (nzOp.from \div 64) % 2 # (nzOp.from \div 2) % 2
  /\ nz.lfsr >= 16384

\* C14: with the five outputs in their ranges and the master volume as
\* setVolume leaves it, the sample _mix() returns lies within [-1, 1].
C14_MixWithinUnit ==
  mix.op = "mix" => ~BigLess(mix.ret.den, mix.ret.num)

\* C14 witness: _mix() with every output at its maximum and the master
\* volume at 1 returned a positive sample.
C14_Witness ==
  /\ mix.op = "mix"
  /\ mix.p1 = 15 /\ mix.p2 = 15 /\ mix.tri = 15 /\ mix.noi = 15
  /\ mix.dmc = 127 /\ mix.master = 10
  /\ ~mix.ret.neg /\ mix.ret.num # <<>>

\* C15: two consecutive writes to $2006, of hi and then lo, leave
\* addr = (hi << 8) | lo whatever addr was before, and a read of $2007
\* returns vram[addr] and leaves addr one higher.
C15_AddrFromTwoWrites ==
  [][ /\ ( /\ ppuOp.op = "write" /\ ppuOp.addr = \h2006
           /\ ppuOp'.op = "write" /\ ppuOp'.addr = \h2006
           /\ ppuCnt'.calls = ppuCnt.calls + 1 )
          => ppu'.addr = ppuOp.v * 256 + ppuOp'.v
      /\ ( /\ ppuOp'.op = "read" /\ ppuOp'.addr = \h2007
           /\ ppuCnt'.calls = ppuCnt.calls + 1 )
          => /\ ppuOp'.ret = ArrGet(ppu.vram, 16384, ppu.addr)
             /\ ppu'.addr = ppu.addr + 1 ]_vars

\* C17: the writes to $2005 alternate from construction on: the 1st, 3rd, ...
\* sets scrollX to the byte and leaves scrollY, the 2nd, 4th, ... sets
\* scrollY to the byte and leaves scrollX.
C17_ScrollWritesAlternate ==
  [][ ( /\ ppuOp'.op = "write" /\ ppuOp'.addr = \h2005
        /\ ppuCnt'.calls = ppuCnt.calls + 1 )
        => IF ppuCnt.scrollWrites % 2 = 0
             THEN ppu'.scrollX = ppuOp'.v /\ ppu'.scrollY = ppu.scrollY
             ELSE ppu'.scrollY = ppuOp'.v /\ ppu'.scrollX = ppu.scrollX ]_vars

\* C18: addr stays within 0..0xFFFF: every $2007 access leaves it one
\* higher modulo 2^16, and every $2007 read returns a byte.
C18_AddrSixteenBit ==
  /\ [](ppu.addr \in 0..65535)
  /\ [](ppuOp.op = "read" /\ ppuOp.addr = \h2007 => ppuOp.ret \in 0..255)
  /\ [][ ( /\ ppuOp'.op \in {"read", "write"} /\ ppuOp'.addr = \h2007
            /\ ppuCnt'.calls = ppuCnt.calls + 1 )
            => ppu'.addr = (ppu.addr + 1) % 65536 ]_vars

\* C19: oamAddr stays within 0..255: a $2004 write stores the byte at
\* oam[oamAddr] and leaves oamAddr one higher modulo 256.
C19_OamAddrEightBit ==
  /\ [](ppu.oamAddr \in 0..255)
  /\ [][ ( /\ ppuOp'.op = "write" /\ ppuOp'.addr = \h2004
            /\ ppuCnt'.calls = ppuCnt.calls + 1 )
            => /\ ArrGet(ppu'.oam, 256, ppu.oamAddr) = ppuOp'.v
               /\ ppu'.oamAddr = (ppu.oamAddr + 1) % 256 ]_vars

\* C16: cycle stays in 0..340 and scanline in 0..261; the step in which
\* scanline becomes 241 sets bit 7 of status, a read of $2002 returns status
\* as it was and clears bit 7 only, the step in which scanline goes from 261
\* back to 0 clears bit 7; so bit 7 is set only on the lines 241..261.
C16_VblankFlag ==
  /\ [](ppu.cycle \in 0..340 /\ ppu.scanline \in 0..261)
  /\ [](Bit(ppu.status, 7) = 1 => ppu.scanline \in 241..261)
  /\ [][ /\ (ppuOp'.op = "step" /\ ppu.scanline = 240 /\ ppu'.scanline = 241)
            => Bit(ppu'.status, 7) = 1
         /\ (ppuOp'.op = "step" /\ ppu.scanline = 261 /\ ppu'.scanline = 0)
            => Bit(ppu'.status, 7) = 0
         /\ ( /\ ppuOp'.op = "read" /\ ppuOp'.addr = \h2002
              /\ ppuCnt'.calls = ppuCnt.calls + 1 )
            => /\ ppuOp'.ret = ppu.status
               /\ Bit(ppu'.status, 7) = 0
               /\ ppu'.status % 128 = ppu.status % 128 ]_vars

\* C16 witness: a read of $2002 during vblank has returned the flag and
\* cleared it.
C16_Witness ==
  /\ ppuOp.op = "read" /\ ppuOp.addr = \h2002
  /\ Bit(ppuOp.ret, 7) = 1
  /\ Bit(ppu.status, 7) = 0
  /\ ppu.scanline \in 241..261

\* C20: renderFrame() is called only by the step() call in which scanline
\* becomes 241, once, and so exactly once in every frame whatever register
\* accesses are made between the steps: the calls since scanline was last
\* 0 number 1 on the lines 241..261 and 0 before.
C20_RenderOncePerFrame ==
  /\ [](ppuCnt.renders = IF ppu.scanline >= 241 THEN 1 ELSE 0)
  /\ [][ /\ ppuOp'.rendered > 0
            => /\ ppuOp'.op = "step" /\ ppuOp'.rendered = 1
               /\ ppu.scanline = 240 /\ ppu'.scanline = 241
               /\ ppu'.cycle = 0
         /\ (ppuOp'.op = "step" /\ ppu.scanline = 240 /\ ppu'.scanline = 241)
            => ppuOp'.rendered = 1 ]_vars

\* C20 witness: the step into line 241 has called renderFrame() after
\* register accesses were made, among them a read of $2007 and a write.
C20_Witness ==
  /\ ppuOp.op = "step" /\ ppuOp.rendered = 1
  /\ ppu.scanline = 241 /\ ppu.cycle = 0
  /\ ppuCnt.calls >= 2 /\ ppu.addr > 0 /\ ppu.ctrl = \hFF

\* C21: a write of v to a high timer byte register ($4003, $4007, $400B,
\* $400F) restarts the channel's envelope (pulse, noise: start set) or sets
\* the triangle's linear-counter reload flag whether the channel is enabled
\* or not, and loads the length counter from table index v >> 3 exactly
\* when the channel is enabled at the time of the write; the counter of a
\* disabled channel is left as it was.
C21_HighTimerWrite ==
  [][ (busOp'.op = "write" /\ busOp'.addr \in {\h4003, \h4007, \h400B, \h400F})
      => LET a    == busOp'.addr
             old  == IF a = \h4003 THEN machine.apu.pulse1
                     ELSE IF a = \h4007 THEN machine.apu.pulse2
                     ELSE IF a = \h400B THEN machine.apu.triangle
                     ELSE machine.apu.noise
             new  == IF a = \h4003 THEN machine'.apu.pulse1
                     ELSE IF a = \h4007 THEN machine'.apu.pulse2
                     ELSE IF a = \h400B THEN machine'.apu.triangle
                     ELSE machine'.apu.noise
         IN  /\ IF a = \h400B THEN new.reloadFlag ELSE new.env.start
             /\ new.len.value = IF old.enabled
                                  THEN LENGTH_TABLE[(busOp'.v \div 8) + 1]
                                  ELSE old.len.value
             /\ new.enabled = old.enabled ]_vars

\* C21 witness: $400B was written with table index 3 into the enabled
\* triangle channel, which set the reload flag and loaded length 2, while
\* the noise channel, whose $400F write was made before it was enabled,
\* has its envelope restarted and nothing loaded.
C21_Witness ==
  /\ busOp.op = "write" /\ busOp.addr = \h400B /\ busOp.v = \h18
  /\ machine.apu.triangle.enabled
  /\ machine.apu.triangle.reloadFlag
  /\ machine.apu.triangle.len.value = 2
  /\ machine.apu.noise.enabled /\ machine.apu.noise.env.start
  /\ machine.apu.noise.len.value = 0

\* C22: accesses at addresses without a register are silent no-ops.
\* PPU.readRegister at an address other than $2002 and $2007 and APU.read
\* at an address other than $4015 return 0 and change nothing;
\* PPU.writeRegister at an address other than $2000, $2001, $2003..$2007
\* and APU.write at an address other than $4000..$4008, $400A..$400C,
\* $400E..$4013, $4015 and $4017 change nothing, the level last handed to
\* onIRQ and the cpuRead / cpuStall record included.
C22_UnmappedAccesses ==
  [][ /\ ( /\ ppuCnt' = ppuCnt /\ busOp'.op = "read"
           /\ busOp'.addr # \h4015 )
         => busOp'.ret = 0 /\ machine' = machine /\ ppu' = ppu /\ dma' = dma
      /\ ( /\ ppuCnt' = ppuCnt /\ busOp'.op = "write"
           /\ busOp'.addr \notin ((\h4000..\h4013) \cup {\h4015, \h4017})
                                  \ {\h4009, \h400D} )
         => machine' = machine /\ ppu' = ppu /\ dma' = dma
      /\ ( /\ ppuCnt'.calls = ppuCnt.calls + 1 /\ ppuOp'.op = "read"
           /\ ppuOp'.addr \notin {\h2002, \h2007} )
         => ppuOp'.ret = 0 /\ ppu' = ppu /\ machine' = machine
      /\ ( /\ ppuCnt'.calls = ppuCnt.calls + 1 /\ ppuOp'.op = "write"
           /\ ppuOp'.addr \notin {\h2000, \h2001} \cup (\h2003..\h2007) )
         => ppu' = ppu /\ machine' = machine ]_vars

\* C22 witness: $4017 has been read (returning 0) with the frame IRQ flag
\* standing and a length counter non-zero, and the PPU written at $2002
\* with its address register set and advanced by a $2007 read: both calls
\* left the flag, the counter and the registers alone.
C22_Witness ==
  /\ busOp.op = "read" /\ busOp.addr = \h4017 /\ busOp.ret = 0
  /\ machine.apu.frameIRQ /\ machine.irqLine = "high"
  /\ machine.apu.pulse1.len.value = 2
  /\ ppuOp.op = "write" /\ ppuOp.addr = \h2002
  /\ ppu.addr = \h24

\* C23: with constantVolume clear, the quarter() tick after a restart sets
\* the decay level to 15 and the divider to volume; each later tick either
\* counts the divider down by one, leaving the decay level alone, or, at
\* divider 0 (every volume + 1 ticks), reloads the divider and lowers the
\* decay level by one; at decay level 0 that tick sets the level back to 15
\* when loop is set and leaves it at 0 when loop is clear.  A step that
\* keeps loop, constantVolume and volume and leaves start clear is a
\* quarter() tick.
C23_EnvelopeDecay ==
  [][ ( /\ ev'.loop = ev.loop /\ ev'.volume = ev.volume
        /\ ev'.constantVolume = ev.constantVolume
        /\ ~ev.constantVolume /\ ~ev'.start )
      => /\ ev.start => ev'.decay = 15 /\ ev'.divider = ev.volume
         /\ (~ev.start /\ ev.divider > 0)
            => ev'.decay = ev.decay /\ ev'.divider = ev.divider - 1
         /\ (~ev.start /\ ev.divider = 0)
            => /\ ev'.divider = ev.volume
               /\ ev'.decay = IF ev.decay > 0 THEN ev.decay - 1
                              ELSE IF ev.loop THEN 15 ELSE 0 ]_vars

\* C23 witness: a looping envelope of volume 3 has been restarted and has
\* run down from 15 to decay level 1, its divider at 0: the next tick
\* lowers the level to 0 and the expiry after that sets it back to 15.
C23_Witness ==
  /\ ev.loop /\ ~ev.constantVolume /\ ~ev.start
  /\ ev.volume = 3 /\ ev.divider = 0 /\ ev.decay = 1

\* C24 as claimed: a quarter-frame tick taken with the triangle's control
\* flag set leaves the linear counter unchanged or reloaded from the
\* reload value.
C24_NoDecrementUnderControl ==
  [][ ( /\ busOp'.op = "write" /\ busOp'.addr = \h4017
        /\ machine'.ticks = <<"quarter", "half">>
        /\ machine.apu.triangle.control )
      => machine'.apu.triangle.linear
           \in {machine.apu.triangle.linear,
                machine.apu.triangle.linearReload} ]_vars

\* C24, amended: what keeps a quarter-frame tick from decrementing the
\* linear counter is the reload flag, not the control flag.  A tick taken
\* with the reload flag set reloads the counter from the reload value; a
\* tick taken with the reload flag clear lowers it by one, down to 0 and
\* never below, whether control is set or clear; and the tick keeps the
\* reload flag only while control is set, so with control and the reload
\* flag both set the counter is reloaded at every tick.
C24_LinearCounter ==
  [][ ( /\ busOp'.op = "write" /\ busOp'.addr = \h4017
        /\ machine'.ticks = <<"quarter", "half">> )
      => LET c == machine.apu.triangle
             d == machine'.apu.triangle
         IN  /\ d.linear = IF c.reloadFlag THEN c.linearReload
                           ELSE IF c.linear > 0 THEN c.linear - 1 ELSE 0
             /\ d.linear >= 0
             /\ d.reloadFlag = (c.reloadFlag /\ c.control)
             /\ d.control = c.control ]_vars

\* C24 witness: a tick taken with control set and the reload flag clear
\* has lowered the linear counter from the reload value 2 to 1.
C24_Witness ==
  /\ busOp.op = "write" /\ busOp.addr = \h4017
  /\ machine.ticks = <<"quarter", "half">>
  /\ machine.apu.triangle.control /\ ~machine.apu.triangle.reloadFlag
  /\ machine.apu.triangle.linearReload = 2
  /\ machine.apu.triangle.linear = 1

\* C25: a refill that brings bytesRemaining to 0 has one outcome.  With
\* loop set it reloads currentAddr and bytesRemaining from sampleAddr0 and
\* sampleLen0 and leaves the IRQ flag as it was; with loop clear and
\* irqEnable set it sets the IRQ flag and bytesRemaining stays 0; with both
\* clear bytesRemaining stays 0 and the IRQ flag is as it was.  The step
\* calls looked at are those that made one fetch, of the last byte.
C25_RefillAtEnd ==
  [][ (Len(dma'.reads) = 1 /\ machine.dmc.bytesRemaining = 1)
      => LET d == machine.dmc
             e == machine'.dmc
         IN  IF d.loop
               THEN /\ e.currentAddr = d.sampleAddr0
                    /\ e.bytesRemaining = d.sampleLen0
                    /\ e.irq = d.irq
               ELSE IF d.irqEnable
                 THEN e.irq /\ e.bytesRemaining = 0
                 ELSE e.bytesRemaining = 0 /\ e.irq = d.irq ]_vars

\* C25 witness: with loop and irqEnable both set, the fetch of the last
\* byte of the 65-byte sample (from address 0, past $FFFF) has reloaded
\* address and length and has not set the IRQ flag.
C25_Witness ==
  /\ dma.reads = <<0>>
  /\ machine.dmc.loop /\ machine.dmc.irqEnable /\ ~machine.dmc.irq
  /\ machine.dmc.bytesRemaining = 65
  /\ machine.dmc.currentAddr = machine.dmc.sampleAddr0

\* C26: a write to $4017 with bit 7 set hands the channels one quarter-frame
\* tick followed by one half-frame tick within the write, before any step;
\* a write with bit 7 clear hands them no tick; a write with bit 6 set
\* leaves frameIRQ false and a write with bit 6 clear leaves frameIRQ as it
\* was.  machine.ticks holds the ticks handed out since the write began.
C26_Write4017Ticks ==
  [][ (busOp'.op = "write" /\ busOp'.addr = \h4017)
      => /\ machine'.ticks = IF BitSet(busOp'.v, 7)
                               THEN <<"quarter", "half">> ELSE <<>>
         /\ machine'.apu.mode5 = BitSet(busOp'.v, 7)
         /\ machine'.apu.frameIRQ = IF BitSet(busOp'.v, 6) THEN FALSE
                                    ELSE machine.apu.frameIRQ ]_vars

\* C26 witness: $4017 was written with bit 7 set and bit 6 clear while the
\* frame IRQ flag of a wrapped 4-step sequence stood: the write ticked
\* quarter then half and left the flag standing.
C26_Witness ==
  /\ busOp.op = "write" /\ busOp.addr = \h4017 /\ busOp.v = \h80
  /\ machine.ticks = <<"quarter", "half">>
  /\ machine.apu.frameIRQ /\ machine.apu.mode5

\* C27: with no $4017 write made, the sequencer accumulates no drift across
\* wraps.  After n step cycles from the constructed state the boundaries
\* fired number the whole multiples of the quarter period 1789773 / 240
\* that are at most n, so that the k-th boundary fires on the first cycle
\* n with n >= k * 1789773 / 240; and after every step call seqTime is
\* below four quarter periods.
C27_NoDrift ==
  /\ tally.boundaries = (tally.cycles * FRAME_HZ) \div NTSC_CPU_HZ
  /\ machine.apu.seqTime < 4 * qPeriod

\* C27 witness: the ninth boundary, the first of the third sequence, has
\* just fired, on cycle 67117 (9 * 1789773 / 240 = 67116.49).
C27_Witness ==
  /\ tally.boundaries = 9 /\ tally.cycles = 67117
  /\ wraps = 2 /\ machine.apu.phase = 1

\* C28: the DMC output level dac stays within 0..127 and bitsRemaining
\* within 0..8, whatever is written to the DMC registers and whatever
\* bytes cpuRead returns; an output bit (the step that lowers
\* bitsRemaining by one) moves dac by +2 for a 1 and by -2 for a 0 when the
\* result is within 0..127 and leaves it unchanged otherwise, and no step
\* call moves it in any other way.
C28_DacRange ==
  /\ [](machine.dmc.dac \in 0..127 /\ machine.dmc.bitsRemaining \in 0..8)
  /\ [][ LET d == machine.dmc
             e == machine'.dmc
             to == IF d.shiftReg % 2 = 1 THEN d.dac + 2 ELSE d.dac - 2
         IN  /\ busOp'.op # "write" => e.dac - d.dac \in {-2, 0, 2}
             /\ (busOp'.op # "write"
                   /\ e.bitsRemaining = d.bitsRemaining - 1)
                => e.dac = IF to \in 0..127 THEN to ELSE d.dac ]_vars

\* C28 witness: with dac at 127, two 1 bits of a byte $FF have been put
\* out and have left it there.
C28_Witness ==
  /\ busOp.op = "none"
  /\ machine.dmc.dac = 127
  /\ machine.dmc.bitsRemaining = 6 /\ machine.dmc.shiftReg = 63

\* C29: a pulse, triangle or noise channel whose enable bit is clear has
\* length counter 0 and output 0, and a disabled DMC has bytesRemaining 0.
C29_DisabledSilent ==
  /\ \A c \in {machine.apu.pulse1, machine.apu.pulse2} :
       ~c.enabled => c.len.value = 0 /\ PulseOut(c) = 0
  /\ ~machine.apu.triangle.enabled
       => /\ machine.apu.triangle.len.value = 0
          /\ TriangleOut(machine.apu.triangle) = 0
  /\ ~machine.apu.noise.enabled
       => /\ machine.apu.noise.len.value = 0
          /\ NoiseOut(machine.apu.noise) = 0
  /\ ~machine.dmc.enabled => machine.dmc.bytesRemaining = 0

\* C29 witness: $4003 has been written into the disabled pulse 1 and has
\* loaded nothing, after the channels had been switched off with their
\* envelopes and the linear counter running (decay levels 14, linear
\* counter 1: two ticks after a high-byte write) and a DMC sample pending.
C29_Witness ==
  /\ busOp.op = "write" /\ busOp.addr = \h4003
  /\ ~machine.apu.pulse1.enabled /\ machine.apu.pulse1.len.value = 0
  /\ machine.apu.pulse1.env.decay = 14 /\ machine.apu.pulse1.env.start
  /\ machine.apu.noise.env.decay = 14
  /\ machine.apu.triangle.linear = 1
  /\ ~machine.dmc.enabled /\ machine.dmc.bytesRemaining = 0

\* C30: the DMC IRQ flag is true only while the DMC is enabled, irqEnable
\* is set and bytesRemaining is 0, and the frame IRQ flag is true only
\* while irqInhibit is clear.
C30_IrqFlags ==
  /\ machine.dmc.irq
       => /\ machine.dmc.enabled /\ machine.dmc.irqEnable
          /\ machine.dmc.bytesRemaining = 0
  /\ machine.apu.frameIRQ => ~machine.apu.irqInhibit

\* C30 witness: both flags stand after a step call, the DMC having fetched
\* the last byte of its sample with irqEnable set and the frame sequencer
\* having wrapped with the IRQ allowed.
C30_Witness ==
  /\ busOp.op = "none"
  /\ machine.dmc.irq /\ machine.dmc.enabled /\ machine.dmc.irqEnable
  /\ machine.dmc.bytesRemaining = 0 /\ ~machine.dmc.sampleBufferEmpty
  /\ machine.apu.frameIRQ /\ ~machine.apu.irqInhibit
  /\ machine.irqLine = "high"

\* C31: under any interleaving of $400E writes and clock() calls the noise
\* shift register stays a nonzero 15-bit value: it is never 0 and never has
\* a bit above bit 14.
C31_LfsrNonzero15Bit == nz.lfsr \in 1..32767

\* C31 witness: a shift made in mode 1, after writes of both period indices,
\* took the register from the single bit 1 (value 2) to the single bit 0
\* with feedback 0, the closest the register comes to the all-zero state.
C31_Witness ==
  /\ nzOp.op = "clock" /\ nzOp.mode = 1 /\ nzOp.from = 2
  /\ nz.periodIdx = 1 /\ nz.timerCnt = NOISE_PERIODS[2]
  /\ nz.lfsr = 1

\* C32: every pixel the render passes draw lands inside the 256x240 frame
\* buffer at the position it was computed for: each drawPixel call of the
\* sprite pass has x < 256 and y < 240, so that its index lies within the
\* buffer and is the index of column x of row y; the background pass draws
\* exactly the columns 0..255 of the rows 0..239.
C32_PixelsInFrame ==
  ppuOp.op = "renderFrame" =>
    /\ \A d \in ppuOp.drawn :
         /\ d.x < 256 /\ d.y < 240
         /\ d.idx + 3 < 256 * 240 * 4
         /\ (d.idx \div 4) % 256 = d.x /\ (d.idx \div 4) \div 256 = d.y
    /\ \A d \in RenderBackground :
         /\ d.x < 256 /\ d.y < 240
         /\ (d.idx \div 4) % 256 = d.x /\ (d.idx \div 4) \div 256 = d.y
    /\ Cardinality({d.idx : d \in RenderBackground}) = 256 * 240

\* C33: every pollGamepads() call requests the next one, the call that
\* completes a remap included; so a remap awaited while a gamepad button is
\* held pressed is completed in the end, the page going back to awaiting
\* none; and a key press or a gamepad press with no remap awaited makes no
\* remap call.
C33_PollingGoesOn ==
  /\ [][PgPoll => pollRequested']_vars
  /\ (waitingForRemap # <<>> /\ pressed # {})
       ~> (waitingForRemap = <<>> \/ pressed = {})
  /\ [][waitingForRemap = <<>> /\ (PgKeydown \/ PgButton)
          => remapped' = remapped]_vars

====
